---- MODULE Spec2Model ----
(***************************************************************************)
(* A model of the hc-fashion-house backend: the SQLite catalogue / media / *)
(* order database behind per-request SQLAlchemy sessions, the service      *)
(* operations that write it, and the identity-backend gate in front of the *)
(* authenticated routes.                                                   *)
(*                                                                         *)
(* db    the committed contents of database/ecommerce.db                   *)
(* tx    the working copy of the one session that holds SQLite's write     *)
(*       lock (equal to db while nobody writes)                            *)
(* lock  the request whose session holds the write lock, or NULL           *)
(* req   the position of every in-flight request handler                   *)
(* last  the most recently finished operation and its outcome              *)
(* env   what lies outside the database: the clock (in hours) and the      *)
(*       identity backend's profile of every user                          *)
(***************************************************************************)
EXTENDS Integers, FiniteSets, Sequences, TLC

VARIABLES db, tx, lock, req, last, env

vars == <<db, tx, lock, req, last, env>>

(***************************************************************************)
(* Bounds of the model.                                                    *)
(***************************************************************************)
MaxMedia == 2
MaxReqs == 2

(***************************************************************************)
(* Values.                                                                 *)
(***************************************************************************)
\* a NULL foreign key / "no request"
NULL == 0

Reqs == 1 .. MaxReqs
MediaIds == 1 .. MaxMedia
UsageTypes == {"catalogue", "lifestyle"}

MaxOf(S) == CHOOSE x \in S : \A y \in S : y <= x

\* INTEGER PRIMARY KEY without the AUTOINCREMENT keyword: max(rowid) + 1
NextId(t) == IF DOMAIN t = {} THEN 1 ELSE MaxOf(DOMAIN t) + 1

Insert(t, row) == [i \in DOMAIN t \cup {NextId(t)} |-> IF i \in DOMAIN t THEN t[i] ELSE row]

Remove(t, id) == [i \in DOMAIN t \ {id} |-> t[i]]

EmptyTable == [i \in {} |-> NULL]

\* init_db: Base.metadata.create_all leaves every table empty
EmptyDb ==
    [platforms |-> EmptyTable, brands |-> EmptyTable, categories |-> EmptyTable,
     catalogues |-> EmptyTable, products |-> EmptyTable, variants |-> EmptyTable,
     options |-> EmptyTable, footwear |-> EmptyTable, media |-> EmptyTable,
     addresses |-> EmptyTable, orders |-> EmptyTable, items |-> EmptyTable,
     returns |-> EmptyTable, return_items |-> EmptyTable]

\* the users the identity backend knows
Users == {1, 2}

\* the role_id values of the identity backend's roles table
RoleIdSet == {1, 2}

\* the clock starts at hour 1; every profile is ACTIVE on sign-up;
\* user_roles gives the number of rows of every (user_id, role_id) pair,
\* none at first; calls counts the create_product calls made and failed
\* holds those that raised
EnvInit ==
    [now |-> 1, profile |-> [u \in Users |-> "ACTIVE"],
     user_roles |-> [p \in Users \X RoleIdSet |-> 0],
     calls |-> 0, failed |-> {}]

(***************************************************************************)
(* Sessions and transactions (database/connection.py).                     *)
(***************************************************************************)
\* sessionmaker(autocommit=True): every statement is its own transaction
SessionAutocommitOn == TRUE

\* sessionmaker(autocommit=False, ...): statements join one transaction that
\* ends at db.commit(), db.rollback() or db.close()
SessionAutocommit == FALSE

\* what the session of request r reads
View(r) == IF lock = r THEN tx ELSE db

\* SQLite admits one writer: a write statement of r runs only while no other
\* session has an open write transaction
CanWrite(r) == lock = NULL \/ lock = r

\* a write statement (UPDATE / flushed INSERT) of r leaving the tables as T
Write(r, T) ==
    IF SessionAutocommit
    THEN db' = T /\ tx' = T /\ lock' = NULL
    ELSE tx' = T /\ lock' = r /\ UNCHANGED db

\* db.commit() of a session whose tables are T
Commit(T) == db' = T /\ tx' = T /\ lock' = NULL

\* db.rollback()
Rollback == tx' = db /\ lock' = NULL /\ UNCHANGED db

\* a rollback that is not issued
db_rollback_skipped(r) == UNCHANGED <<db, tx, lock>>

\* db.rollback() in an except clause: ends the session's open transaction,
\* if it has one, and discards what was flushed
db_rollback(r) == IF lock = r THEN Rollback ELSE UNCHANGED <<db, tx, lock>>

\* a close that would keep what the session has flushed
get_db_close_keeps_flushed(r) == IF lock = r THEN Commit(tx) ELSE UNCHANGED <<db, tx, lock>>

\* get_db: finally db.close() ends the request's session; an open
\* transaction is rolled back
get_db_close(r) == IF lock = r THEN Rollback ELSE UNCHANGED <<db, tx, lock>>

IdleReq == [pc |-> "idle"]

Last(op, ok, product_id, media_id) ==
    [op |-> op, ok |-> ok, product_id |-> product_id, media_id |-> media_id]

(***************************************************************************)
(* Media assets.                                                           *)
(***************************************************************************)
MediaRow(product_id, variant_id, usage_type, is_primary) ==
    [product_id |-> product_id, variant_id |-> variant_id,
     usage_type |-> usage_type, is_primary |-> is_primary]

\* the variants a request may name together with product p
VariantsOf(T, p) == {v \in DOMAIN T.variants : T.variants[v].product_id = p}

\* MediaAssetService.create_media: inserts the row as given
create_media(p, v, u, prim) ==
    /\ lock = NULL
    /\ NextId(db.media) <= MaxMedia
    /\ Commit([db EXCEPT !.media = Insert(@, MediaRow(p, v, u, prim))])
    /\ last' = Last("create_media", TRUE, p, NextId(db.media))
    /\ UNCHANGED <<req, env>>

\* MediaAssetService.update_media: setattr of every field present
update_media(m, prim, u) ==
    /\ lock = NULL
    /\ m \in DOMAIN db.media
    /\ Commit([db EXCEPT !.media[m] =
            [@ EXCEPT !.is_primary = IF prim = "keep" THEN @ ELSE prim = "on",
                      !.usage_type = IF u = "keep" THEN @ ELSE u]])
    /\ last' = Last("update_media", TRUE, db.media[m].product_id, m)
    /\ UNCHANGED <<req, env>>

\* MediaAssetService.delete_media
delete_media(m) ==
    /\ lock = NULL
    /\ m \in DOMAIN db.media
    /\ Commit([db EXCEPT !.media = Remove(@, m)])
    /\ last' = Last("delete_media", TRUE, db.media[m].product_id, m)
    /\ UNCHANGED <<req, env>>

\* MediaAssetService.set_primary_media, first statement:
\* UPDATE media_assets SET is_primary = 0 WHERE product_id = :p
set_primary_media_unset(r, p, m) ==
    /\ req[r].pc = "idle"
    /\ CanWrite(r)
    /\ Write(r, [View(r) EXCEPT !.media =
            [i \in DOMAIN @ |-> IF @[i].product_id = p
                                THEN [@[i] EXCEPT !.is_primary = FALSE]
                                ELSE @[i]]])
    /\ req' = [req EXCEPT ![r] = [pc |-> "set", op |-> "set_primary_media",
                                  product_id |-> p, media_id |-> m]]
    /\ UNCHANGED <<last, env>>

\* MediaAssetService.set_primary_media, the rest: get_media (404), the
\* ownership check (400), media.is_primary = True, db.commit()
set_primary_media_set(r) ==
    /\ req[r].pc = "set"
    /\ CanWrite(r)
    /\ LET V == View(r)
           p == req[r].product_id
           m == req[r].media_id
       IN IF m \in DOMAIN V.media /\ V.media[m].product_id = p
          THEN /\ Commit([V EXCEPT !.media[m].is_primary = TRUE])
               /\ last' = Last("set_primary_media", TRUE, p, m)
          ELSE /\ get_db_close(r)
               /\ last' = Last("set_primary_media", FALSE, p, m)
    /\ req' = [req EXCEPT ![r] = IdleReq]
    /\ UNCHANGED env

\* MediaUploadService._unset_primary_media: the filters that are given
\* (truthy) are applied, then UPDATE ... SET is_primary = 0
unset_primary_media(media, variant_id, product_id, usage_type) ==
    [i \in DOMAIN media |->
        IF /\ media[i].is_primary
           /\ (variant_id # NULL => media[i].variant_id = variant_id)
           /\ (product_id # NULL => media[i].product_id = product_id)
           /\ media[i].usage_type = usage_type
        THEN [media[i] EXCEPT !.is_primary = FALSE]
        ELSE media[i]]

\* MediaUploadService.upload_product_variant_media up to the await:
\* validate_product_variant, then the unset when is_primary is asked
upload_product_variant_media_begin(r, p, v, u, prim) ==
    /\ req[r].pc = "idle"
    /\ p \in DOMAIN View(r).products
    /\ v \in VariantsOf(View(r), p)
    /\ NextId(View(r).media) <= MaxMedia
    /\ IF prim
       THEN /\ CanWrite(r)
            /\ Write(r, [View(r) EXCEPT !.media = unset_primary_media(@, v, NULL, u)])
       ELSE UNCHANGED <<db, tx, lock>>
    /\ req' = [req EXCEPT ![r] = [pc |-> "uploading", op |-> "upload",
                                  product_id |-> p, variant_id |-> v,
                                  usage_type |-> u, is_primary |-> prim]]
    /\ UNCHANGED <<last, env>>

\* ... and after it: the cloud upload raised (the session is closed), or
\* create_media_asset inserts the row and commits
upload_product_variant_media_finish(r, uploaded) ==
    /\ req[r].pc = "uploading"
    /\ IF uploaded
       THEN /\ CanWrite(r)
            /\ NextId(View(r).media) <= MaxMedia
            /\ Commit([View(r) EXCEPT !.media = Insert(@,
                    MediaRow(req[r].product_id, req[r].variant_id,
                             req[r].usage_type, req[r].is_primary))])
            /\ last' = Last("upload", TRUE, req[r].product_id, NextId(View(r).media))
       ELSE /\ get_db_close(r)
            /\ last' = Last("upload", FALSE, req[r].product_id, NULL)
    /\ req' = [req EXCEPT ![r] = IdleReq]
    /\ UNCHANGED env

\* MediaUploadService.update_media: the primary flag is re-scoped by
\* variant when the row has one, else by product
upload_update_media(m, prim) ==
    /\ lock = NULL
    /\ m \in DOMAIN db.media
    /\ LET row == db.media[m]
           cleared == IF prim # "on" THEN db.media
                      ELSE IF row.variant_id # NULL
                           THEN unset_primary_media(db.media, row.variant_id, NULL, row.usage_type)
                      ELSE IF row.product_id # NULL
                           THEN unset_primary_media(db.media, NULL, row.product_id, row.usage_type)
                      ELSE db.media
       IN Commit([db EXCEPT !.media =
                [cleared EXCEPT ![m].is_primary = IF prim = "keep" THEN @ ELSE prim = "on"]])
    /\ last' = Last("upload_update_media", TRUE, db.media[m].product_id, m)
    /\ UNCHANGED <<req, env>>

\* MediaUploadService.set_primary_media(variant_id, media_id)
upload_set_primary_media(v, m) ==
    /\ lock = NULL
    /\ IF m \notin DOMAIN db.media
       THEN /\ UNCHANGED <<db, tx, lock>>
            /\ last' = Last("upload_set_primary_media", FALSE, NULL, m)
       ELSE IF db.media[m].variant_id = v
       THEN /\ Commit([db EXCEPT !.media =
                    [unset_primary_media(@, v, NULL, db.media[m].usage_type)
                        EXCEPT ![m].is_primary = TRUE]])
            /\ last' = Last("upload_set_primary_media", TRUE, db.media[m].product_id, m)
       ELSE /\ UNCHANGED <<db, tx, lock>>
            /\ last' = Last("upload_set_primary_media", FALSE, db.media[m].product_id, m)
    /\ UNCHANGED <<req, env>>

(***************************************************************************)
(* The media specification: a catalogue with two products, the first with  *)
(* two size variants, and no media yet.                                    *)
(***************************************************************************)
SeedProducts ==
    [i \in 1 .. 2 |-> [catalogue_id |-> 1, brand_id |-> NULL, status |-> "live",
                       deleted |-> FALSE, call |-> NULL, price |-> 1, mrp |-> 1]]

SeedVariants ==
    [i \in 1 .. 2 |-> [product_id |-> 1, is_active |-> TRUE, deleted |-> FALSE, call |-> NULL]]

MediaSeed == [EmptyDb EXCEPT !.products = SeedProducts, !.variants = SeedVariants]

InitMedia ==
    /\ db = MediaSeed
    /\ tx = MediaSeed
    /\ lock = NULL
    /\ req = [r \in Reqs |-> IdleReq]
    /\ last = Last("none", TRUE, NULL, NULL)
    /\ env = EnvInit

NextMedia ==
    \/ \E p \in DOMAIN db.products, u \in UsageTypes, prim \in BOOLEAN :
         \E v \in {NULL} \cup VariantsOf(db, p) : create_media(p, v, u, prim)
    \/ \E m \in MediaIds, prim \in {"keep", "on", "off"}, u \in {"keep"} \cup UsageTypes :
         update_media(m, prim, u)
    \/ \E m \in MediaIds : delete_media(m)
    \/ \E r \in Reqs, p \in DOMAIN db.products, m \in MediaIds :
         set_primary_media_unset(r, p, m)
    \/ \E r \in Reqs : set_primary_media_set(r)
    \/ \E r \in Reqs, p \in DOMAIN db.products, u \in UsageTypes, prim \in BOOLEAN :
         \E v \in DOMAIN db.variants : upload_product_variant_media_begin(r, p, v, u, prim)
    \/ \E r \in Reqs, uploaded \in BOOLEAN : upload_product_variant_media_finish(r, uploaded)
    \/ \E m \in MediaIds, prim \in {"keep", "on", "off"} : upload_update_media(m, prim)
    \/ \E m \in MediaIds, v \in DOMAIN db.variants : upload_set_primary_media(v, m)

SpecMedia == InitMedia /\ [][NextMedia]_vars

\* the primary media rows of product p in tables T
PrimaryOf(T, p) == {m \in DOMAIN T.media : T.media[m].product_id = p /\ T.media[m].is_primary}

\* C1: after any sequence of media operations, at most one media asset is
\* marked primary for a given product and usage type.
C1_AtMostOnePrimary ==
    \A p \in DOMAIN db.products, u \in UsageTypes :
        Cardinality({m \in PrimaryOf(db, p) : db.media[m].usage_type = u}) <= 1

\* C2, as stated: while one set-primary request stands between its unset
\* statement and its set statement, the unset statement of a second
\* set-primary request for the same product can run.
C2_UnsetLandsBetween ==
    \A r \in Reqs, r2 \in Reqs :
        (r # r2 /\ req[r].pc = "set" /\ req[r2].pc = "idle")
            => \E m \in MediaIds : ENABLED set_primary_media_unset(r2, req[r].product_id, m)

\* C2, amended: the unset and the set of one set-primary request are one
\* write transaction that no other request's statement enters; when the
\* request has committed, its target is the only primary media of the
\* product, whatever other set-primary requests are in flight.
C2_SetPrimarySerialized ==
    (last.op = "set_primary_media" /\ last.ok)
        => PrimaryOf(db, last.product_id) = {last.media_id}

\* two requests for one product and two of its media: the first has
\* committed, the second has issued its unset and not yet its set
C2_Witness ==
    /\ last.op = "set_primary_media" /\ last.ok
    /\ \E r \in Reqs :
        /\ req[r].pc = "set"
        /\ req[r].product_id = last.product_id
        /\ req[r].media_id # last.media_id
        /\ req[r].media_id \in DOMAIN db.media
        /\ db.media[req[r].media_id].product_id = last.product_id
        /\ lock = r

\* C13: after a set-primary call for media B of a product (by product,
\* MediaAssetService, or by variant, MediaUploadService) B is primary and is
\* the only primary row of its product and usage type, whichever row A of
\* that product and usage type was primary before.
C13_SetPrimaryExclusive ==
    (last.op \in {"set_primary_media", "upload_set_primary_media"} /\ last.ok)
        => {m \in PrimaryOf(db, last.product_id) :
                db.media[m].usage_type = db.media[last.media_id].usage_type}
             = {last.media_id}

\* the is_primary flag of every media row of tables T
PrimaryFlags(T) == [m \in DOMAIN T.media |-> T.media[m].is_primary]

\* C28: a set-primary request that is rejected leaves the is_primary flag
\* of every media row as it was before the request: the flags in the
\* database do not change when its unset statement is flushed, while it is
\* in flight, or when it is rejected, and the rejection leaves nothing
\* flushed behind.
C28_RejectedSetPrimaryChangesNothing ==
    [][/\ \A r \in Reqs :
            /\ (req'[r].pc = "set" /\ req[r].pc \in {"idle", "set"})
                  => PrimaryFlags(db') = PrimaryFlags(db)
            /\ (req[r].pc = "set" /\ req'[r].pc = "idle" /\ ~ last'.ok)
                  => PrimaryFlags(db') = PrimaryFlags(db) /\ tx' = db'
       /\ (last' # last /\ last'.op = "upload_set_primary_media" /\ ~ last'.ok)
            => PrimaryFlags(db') = PrimaryFlags(db) /\ tx' = tx]_vars

\* a request to make a media row of another product the primary of a
\* product was rejected, and the product's primary row is still primary
C28_Witness ==
    /\ last.op = "set_primary_media" /\ ~ last.ok
    /\ last.media_id \in DOMAIN db.media
    /\ db.media[last.media_id].product_id # last.product_id
    /\ PrimaryOf(db, last.product_id) # {}
    /\ tx = db

(***************************************************************************)
(* Addresses, orders and return requests (services/order_service.py).      *)
(***************************************************************************)
MaxAddresses == 2
MaxOrders == 1
MaxItems == 2
MaxReturns == 1
MaxNow == 75

AddressIds == 1 .. MaxAddresses
OrderIds == 1 .. MaxOrders

\* the clock is advanced in steps of about a day and a half
Ticks == {35, 36, 37}

\* create_return_request: hours_since_delivery > 72
ReturnWindowHours == 72

OrderStatus ==
    {"pending", "confirmed", "processing", "shipped", "in_transit",
     "out_for_delivery", "delivered", "cancelled", "return_requested",
     "return_approved", "return_rejected", "returned", "refunded"}

\* the outcome of the last address / order / return call: its HTTP status,
\* the row it was about and, for a return request, the hours since delivery
Reply(op, code, id, hours) == [op |-> op, code |-> code, id |-> id, hours |-> hours]

\* by_order marks the row as written by create_order
AddressRow(user_id, is_default, by_order) ==
    [user_id |-> user_id, is_default |-> is_default, by_order |-> by_order]

\* UPDATE addresses SET is_default = 0 WHERE user_id = :u AND is_default
\*   [AND id != :keep]
unset_default_addresses(addresses, user_id, keep) ==
    [a \in DOMAIN addresses |->
        IF addresses[a].user_id = user_id /\ addresses[a].is_default /\ a # keep
        THEN [addresses[a] EXCEPT !.is_default = FALSE]
        ELSE addresses[a]]

\* AddressService.create_address
create_address(u, is_default) ==
    /\ lock = NULL
    /\ NextId(db.addresses) <= MaxAddresses
    /\ LET cleared == IF is_default /\ u # NULL
                      THEN unset_default_addresses(db.addresses, u, NULL)
                      ELSE db.addresses
       IN Commit([db EXCEPT !.addresses = Insert(cleared, AddressRow(u, is_default, FALSE))])
    /\ last' = Reply("create_address", 201, NextId(db.addresses), NULL)
    /\ UNCHANGED <<req, env>>

\* AddressService.update_address; is_default is "keep" when the field is
\* not in the payload
update_address(a, u, is_default) ==
    /\ lock = NULL
    /\ IF a \in DOMAIN db.addresses /\ db.addresses[a].user_id = u
       THEN /\ LET cleared == IF is_default = "on"
                              THEN unset_default_addresses(db.addresses, u, a)
                              ELSE db.addresses
               IN Commit([db EXCEPT !.addresses =
                        [cleared EXCEPT ![a].is_default =
                            IF is_default = "keep" THEN @ ELSE is_default = "on"]])
            /\ last' = Reply("update_address", 200, a, NULL)
       ELSE /\ UNCHANGED <<db, tx, lock>>
            /\ last' = Reply("update_address", 404, a, NULL)
    /\ UNCHANGED <<req, env>>

\* a service that deletes without looking at the orders
address_in_use_never(orders, a) == FALSE

\* delete_address: order_count > 0 for Order.shipping_address_id == address_id
address_in_use(orders, a) == \E o \in DOMAIN orders : orders[o].shipping_address_id = a

\* AddressService.delete_address: get_address scoped to the user (404), the
\* order count (400), db.delete and db.commit(); the flush of the delete
\* sets shipping_address_id of the address's orders to NULL (Address.orders
\* has no cascade), which the NOT NULL column refuses
delete_address(a, u) ==
    /\ lock = NULL
    /\ LET Ended(code) ==
               /\ last' = Reply("delete_address", code, a, NULL) @@ [user_id |-> u]
               /\ UNCHANGED <<db, tx, lock>>
       IN IF a \notin DOMAIN db.addresses \/ db.addresses[a].user_id # u
          THEN Ended(404)
          ELSE IF address_in_use(db.orders, a)
          THEN Ended(400)
          ELSE IF \E o \in DOMAIN db.orders : db.orders[o].shipping_address_id = a
          THEN Ended(500)
          ELSE /\ Commit([db EXCEPT !.addresses = Remove(@, a)])
               /\ last' = Reply("delete_address", 200, a, NULL) @@ [user_id |-> u]
    /\ UNCHANGED <<req, env>>

\* the e-mail addresses customers give
Emails == {"ann@shop.in", "Ann@shop.in", "bob@shop.in"}

\* no e-mail: the column is NULL, the argument None
NoEmail == ""

\* a checkout without a signed-in user carries the guest-info block
GuestOf(u) == IF u = NULL THEN "ann@shop.in" ELSE NoEmail

\* an item of the checkout payload (OrderItemCreate)
Line(unit_price, quantity) == [unit_price |-> unit_price, quantity |-> quantity]

\* a payload of n items of one rupee each
Cart(n) == [i \in 1 .. n |-> Line(1, 1)]

\* sum(item.unit_price * item.quantity for item in order_data.items)
RECURSIVE Subtotal(_)
Subtotal(items) ==
    IF items = <<>> THEN 0
    ELSE Head(items).unit_price * Head(items).quantity + Subtotal(Tail(items))

\* the pincode of every shipping address of the model
Pincode == "110001"

\* a rule that is free only above 999 rupees
calculate_shipping_charge_above(subtotal, pincode) == IF subtotal > 999 THEN 0 ELSE 99

\* calculate_shipping_charge: free from 999 rupees, 99 rupees below
calculate_shipping_charge(subtotal, pincode) == IF subtotal >= 999 THEN 0 ELSE 99

OrderRow(user_id, guest_email, address_id, items) ==
    [user_id |-> user_id, guest_email |-> guest_email, shipping_address_id |-> address_id,
     status |-> "confirmed", payment_status |-> "paid",
     shipped_at |-> NULL, delivered_at |-> NULL,
     video_call_completed |-> FALSE, video_call_approved |-> FALSE, n_items |-> Len(items),
     subtotal |-> Subtotal(items),
     shipping_charge |-> calculate_shipping_charge(Subtotal(items), Pincode),
     discount_amount |-> 0,
     total_amount |-> Subtotal(items) + calculate_shipping_charge(Subtotal(items), Pincode)]

ItemsOf(T, o) == {i \in DOMAIN T.items : T.items[i].order_id = o}

\* an order_items row: total_price=item_data.unit_price * item_data.quantity
OrderItem(o, line) ==
    [order_id |-> o, quantity |-> line.quantity, unit_price |-> line.unit_price,
     total_price |-> line.unit_price * line.quantity]

RECURSIVE InsertItems(_, _, _)
InsertItems(items, o, lines) ==
    IF lines = <<>> THEN items
    ELSE InsertItems(Insert(items, OrderItem(o, Head(lines))), o, Tail(lines))

\* OrderService.create_order up to the first flush: the shipping address
\* is inserted as the payload gives it; guest is the email of the
\* guest-info block, NoEmail when the payload has none
create_order_address(r, u, guest, is_default, items) ==
    /\ req[r].pc = "idle"
    /\ CanWrite(r)
    /\ NextId(View(r).addresses) <= MaxAddresses
    /\ NextId(View(r).orders) <= MaxOrders
    /\ Write(r, [View(r) EXCEPT !.addresses = Insert(@, AddressRow(u, is_default, TRUE))])
    /\ req' = [req EXCEPT ![r] = [pc |-> "order", op |-> "create_order", user_id |-> u,
                                  guest_email |-> guest,
                                  address_id |-> NextId(View(r).addresses), items |-> items]]
    /\ UNCHANGED <<last, env>>

\* ... the Order insert and its flush (which raises, for one, when the
\* generated order_number collides with the unique index)
create_order_order(r, ok) ==
    /\ req[r].pc = "order"
    /\ CanWrite(r)
    /\ IF ok
       THEN /\ Write(r, [View(r) EXCEPT !.orders =
                    Insert(@, OrderRow(req[r].user_id, req[r].guest_email,
                                      req[r].address_id, req[r].items))])
            /\ req' = [req EXCEPT ![r] = [@ EXCEPT !.pc = "items"]
                                            @@ [order_id |-> NextId(View(r).orders)]]
            /\ UNCHANGED last
       ELSE /\ get_db_close(r)
            /\ req' = [req EXCEPT ![r] = IdleReq]
            /\ last' = Reply("create_order", 500, NULL, NULL)
    /\ UNCHANGED env

\* ... the OrderItem inserts and db.commit()
create_order_items(r, ok) ==
    /\ req[r].pc = "items"
    /\ CanWrite(r)
    /\ IF ok
       THEN /\ Commit([View(r) EXCEPT !.items = InsertItems(@, req[r].order_id, req[r].items)])
            /\ last' = Reply("create_order", 201, req[r].order_id, NULL)
       ELSE /\ get_db_close(r)
            /\ last' = Reply("create_order", 500, NULL, NULL)
    /\ req' = [req EXCEPT ![r] = IdleReq]
    /\ UNCHANGED env

\* OrderService.update_order; a field is "keep" when it is not in the payload
update_order(o, status, completed, approved) ==
    /\ lock = NULL
    /\ o \in DOMAIN db.orders
    /\ Commit([db EXCEPT !.orders[o] =
            [@ EXCEPT !.status = IF status = "keep" THEN @ ELSE status,
                      !.shipped_at = IF status = "shipped" THEN env.now ELSE @,
                      !.delivered_at = IF status = "delivered" THEN env.now ELSE @,
                      !.video_call_completed = IF completed = "keep" THEN @ ELSE completed = "on",
                      !.video_call_approved = IF approved = "keep" THEN @ ELSE approved = "on"]])
    /\ last' = Reply("update_order", 200, o, NULL)
    /\ UNCHANGED <<req, env>>

\* the OrderUpdate payloads tried: a status alone, or the video-call flags
OrderUpdates ==
    {[status |-> s, video_call_completed |-> "keep", video_call_approved |-> "keep"] :
        s \in OrderStatus}
    \cup {[status |-> "keep", video_call_completed |-> c, video_call_approved |-> a] :
        c \in {"keep", "on", "off"}, a \in {"keep", "on", "off"}}

\* hours since delivery, as create_return_request computes them
hours_since_delivery(order) == env.now - order.delivered_at

\* a window that closes at the 72nd hour
return_window_expired_at_72(order) ==
    order.delivered_at # NULL /\ hours_since_delivery(order) >= ReturnWindowHours

\* create_return_request: the two eligibility checks
return_window_expired(order) ==
    order.delivered_at # NULL /\ hours_since_delivery(order) > ReturnWindowHours

video_call_approved(order) == order.video_call_completed /\ order.video_call_approved

\* a Text column that holds NULL
NullText == [null |-> TRUE]

\* an image list that is dropped
json_dumps_images_dropped(images) == NullText

\* json.dumps(return_data.images) if return_data.images else None
json_dumps_images(images) == IF images = <<>> THEN NullText ELSE [null |-> FALSE, json |-> images]

\* the image list a stored value stands for
json_loads_images(text) == IF text.null THEN <<>> ELSE text.json

\* the ReturnRequestItem rows of one request: an id of item_ids gets a row
\* when it is an OrderItem of the order, and is passed over when not
RECURSIVE InsertReturnItems(_, _, _, _, _)
InsertReturnItems(return_items, items, request_id, order_id, item_ids) ==
    IF item_ids = {} THEN return_items
    ELSE LET i == CHOOSE x \in item_ids : \A y \in item_ids : x <= y
             rest == item_ids \ {i}
         IN IF i \in DOMAIN items /\ items[i].order_id = order_id
            THEN InsertReturnItems(
                    Insert(return_items, [return_request_id |-> request_id, order_item_id |-> i]),
                    items, request_id, order_id, rest)
            ELSE InsertReturnItems(return_items, items, request_id, order_id, rest)

\* a ReturnRequestCreate payload
ReturnData(order_id, item_ids, reason, description, has_unboxing_video, images) ==
    [order_id |-> order_id, item_ids |-> item_ids, reason |-> reason,
     description |-> description, has_unboxing_video |-> has_unboxing_video,
     images |-> images]

\* the payload that returns every item of order o as damaged
ReturnAll(o) == ReturnData(o, ItemsOf(db, o), "damaged", "", FALSE, <<>>)

\* ReturnService.create_return_request
create_return_request(u, return_data) ==
    /\ lock = NULL
    /\ LET o == return_data.order_id
           Refused(code, hours) ==
               /\ last' = Reply("create_return_request", code, o, hours)
                            @@ [data |-> return_data, user_id |-> u]
               /\ UNCHANGED <<db, tx, lock>>
       IN IF o \notin DOMAIN db.orders
          THEN Refused(404, NULL)
          ELSE LET order == db.orders[o]
                   hours == IF order.delivered_at = NULL THEN NULL
                            ELSE hours_since_delivery(order)
                   id == NextId(db.returns)
               IN IF u # NULL /\ order.user_id # u
                  THEN Refused(403, hours)
                  ELSE IF return_window_expired(order) \/ video_call_approved(order)
                  THEN Refused(400, hours)
                  ELSE /\ id <= MaxReturns
                       /\ Commit([db EXCEPT
                            !.returns = Insert(@,
                                [order_id |-> o, reason |-> return_data.reason,
                                 description |-> return_data.description,
                                 has_unboxing_video |-> return_data.has_unboxing_video,
                                 images |-> json_dumps_images(return_data.images)]),
                            !.return_items = InsertReturnItems(@, db.items, id, o,
                                                               return_data.item_ids),
                            !.orders[o].status = "return_requested"])
                       /\ last' = Reply("create_return_request", 201, o, hours)
                                    @@ [data |-> return_data, return_id |-> id,
                                        user_id |-> u]
    /\ UNCHANGED <<req, env>>

\* time passes
Tick(d) ==
    /\ env.now + d <= MaxNow
    /\ env' = [env EXCEPT !.now = @ + d]
    /\ UNCHANGED <<db, tx, lock, req, last>>

InitOrders ==
    /\ db = EmptyDb
    /\ tx = EmptyDb
    /\ lock = NULL
    /\ req = [r \in Reqs |-> IdleReq]
    /\ last = Reply("none", 200, NULL, NULL)
    /\ env = EnvInit

\* the order lifecycle: checkout, the admin's updates, return requests
NextOrders ==
    \/ \E r \in Reqs, u \in {NULL} \cup Users :
         create_order_address(r, u, GuestOf(u), FALSE, Cart(1))
    \/ \E r \in Reqs, ok \in BOOLEAN : create_order_order(r, ok)
    \/ \E r \in Reqs, ok \in BOOLEAN : create_order_items(r, ok)
    \/ \E o \in OrderIds, u \in OrderUpdates :
         update_order(o, u.status, u.video_call_completed, u.video_call_approved)
    \/ \E u \in {NULL} \cup Users, o \in OrderIds : create_return_request(u, ReturnAll(o))
    \/ \E d \in Ticks : Tick(d)

SpecOrders == InitOrders /\ [][NextOrders]_vars

\* the address book and checkout
NextAddresses ==
    \/ \E u \in Users, is_default \in BOOLEAN : create_address(u, is_default)
    \/ \E a \in AddressIds, u \in Users, is_default \in {"keep", "on", "off"} :
         update_address(a, u, is_default)
    \/ \E a \in AddressIds, u \in Users : delete_address(a, u)
    \/ \E r \in Reqs, u \in {NULL} \cup Users, is_default \in BOOLEAN, n \in 1 .. MaxItems :
         create_order_address(r, u, GuestOf(u), is_default, Cart(n))
    \/ \E r \in Reqs, ok \in BOOLEAN : create_order_order(r, ok)
    \/ \E r \in Reqs, ok \in BOOLEAN : create_order_items(r, ok)

SpecAddresses == InitOrders /\ [][NextAddresses]_vars

\* the order state machine of the specification
StatusEdges ==
    {<<"confirmed", "processing">>, <<"processing", "shipped">>,
     <<"shipped", "in_transit">>, <<"in_transit", "out_for_delivery">>,
     <<"out_for_delivery", "delivered">>, <<"delivered", "return_requested">>,
     <<"return_requested", "return_approved">>, <<"return_requested", "return_rejected">>,
     <<"return_approved", "returned">>, <<"return_rejected", "returned">>,
     <<"returned", "refunded">>,
     <<"confirmed", "cancelled">>, <<"processing", "cancelled">>}

\* C3: every order starts confirmed and paid, and its status only ever
\* moves along an edge of the state machine (so return_requested is entered
\* from delivered alone, and nothing moves to or from pending).
C3_StatusFollowsStateMachine ==
    [][\A o \in DOMAIN db'.orders :
          IF o \in DOMAIN db.orders
          THEN \/ db'.orders[o].status = db.orders[o].status
               \/ <<db.orders[o].status, db'.orders[o].status>> \in StatusEdges
          ELSE db'.orders[o].status = "confirmed" /\ db'.orders[o].payment_status = "paid"]_vars

\* C5: create_order persists the address, the order and its items together
\* or not at all: the committed database never holds an address written by
\* a checkout without its order, an order without its address or without
\* all of its items, or an item without its order.
C5_OrderAllOrNothing ==
    /\ \A a \in DOMAIN db.addresses :
          db.addresses[a].by_order
            => \E o \in DOMAIN db.orders : db.orders[o].shipping_address_id = a
    /\ \A o \in DOMAIN db.orders :
          /\ db.orders[o].shipping_address_id \in DOMAIN db.addresses
          /\ Cardinality(ItemsOf(db, o)) = db.orders[o].n_items
    /\ \A i \in DOMAIN db.items : db.items[i].order_id \in DOMAIN db.orders

\* a checkout that failed after its address was flushed, beside an address
\* saved before it
C5_Witness ==
    /\ last.op = "create_order" /\ last.code = 500
    /\ DOMAIN db.addresses # {}
    /\ DOMAIN db.orders = {}
    /\ lock = NULL

\* the orders that ship to address a
OrdersTo(T, a) == {o \in DOMAIN T.orders : T.orders[o].shipping_address_id = a}

\* C19: delete_address answers 400 for an address of the user that an order
\* ships to and leaves the row in place, and deletes an address of the user
\* that no order ships to; so every order's shipping address exists.
C19_ReferencedAddressKept ==
    /\ \A o \in DOMAIN db.orders : db.orders[o].shipping_address_id \in DOMAIN db.addresses
    /\ last.op = "delete_address"
         => /\ OrdersTo(db, last.id) # {}
                 => last.code \in {400, 404} /\ last.id \in DOMAIN db.addresses
            /\ last.code = 400
                 => OrdersTo(db, last.id) # {} /\ db.addresses[last.id].user_id = last.user_id
            /\ last.code = 200 => last.id \notin DOMAIN db.addresses
            /\ last.code \in {200, 400, 404}

\* a user's address that an order ships to was refused deletion, after
\* another address had been deleted
C19_Witness ==
    /\ last.op = "delete_address" /\ last.code = 400
    /\ last.id \in DOMAIN db.addresses
    /\ OrdersTo(db, last.id) # {}
    /\ \E a \in AddressIds : a \notin DOMAIN db.addresses /\ a < last.id

\* a step of create_return_request
ReturnRequestStep ==
    /\ last'.op = "create_return_request"
    /\ last' # last \/ db'.returns # db.returns

\* C6: a return request is refused (400) exactly when more than 72 hours
\* have passed since delivered_at or the video call was both completed and
\* approved; otherwise a request that names an order of the caller is taken.
C6_ReturnEligibility ==
    [][(ReturnRequestStep /\ last'.code \in {201, 400})
          => LET order == db.orders[last'.id]
             IN (last'.code = 400)
                  <=> \/ order.delivered_at # NULL /\ env.now - order.delivered_at > 72
                      \/ order.video_call_completed /\ order.video_call_approved]_vars

\* a request 73 hours after delivery was refused, on the window alone
C6_Witness ==
    /\ last.op = "create_return_request" /\ last.code = 400 /\ last.hours = 73
    /\ ~ video_call_approved(db.orders[last.id])

\* C9: at most one address of a user is the default.
C9_OneDefaultPerUser ==
    \A u \in Users :
        Cardinality({a \in DOMAIN db.addresses :
                        db.addresses[a].user_id = u /\ db.addresses[a].is_default}) <= 1

(***************************************************************************)
(* Return requests and what they record.                                   *)
(***************************************************************************)
\* two delivered orders: order 1 of user 1 with items 1 and 2, order 2 of a
\* guest with item 3
ReturnsSeed ==
    [EmptyDb EXCEPT
        !.addresses = [a \in 1 .. 2 |-> AddressRow(IF a = 1 THEN 1 ELSE NULL, FALSE, TRUE)],
        !.orders = [o \in 1 .. 2 |->
                        [OrderRow(IF o = 1 THEN 1 ELSE NULL, GuestOf(IF o = 1 THEN 1 ELSE NULL),
                                  o, Cart(IF o = 1 THEN 2 ELSE 1))
                            EXCEPT !.status = "delivered", !.delivered_at = 1]],
        !.items = [i \in 1 .. 3 |-> OrderItem(IF i = 3 THEN 2 ELSE 1, Line(1, 1))]]

InitReturns ==
    /\ db = ReturnsSeed
    /\ tx = ReturnsSeed
    /\ lock = NULL
    /\ req = [r \in Reqs |-> IdleReq]
    /\ last = Reply("none", 200, NULL, NULL)
    /\ env = EnvInit

\* the ReturnRequestCreate payloads tried
ReturnPayloads ==
    {ReturnData(o, ids, rd[1], rd[2], video, images) :
        o \in DOMAIN ReturnsSeed.orders, ids \in {{1}, {1, 2}, {1, 3}},
        rd \in {<<"damaged", "sole came off">>, <<"wrong_size", "">>},
        video \in BOOLEAN, images \in {<<>>, <<"box.jpg">>}}

\* customers ask for returns while the admin records the video call
NextReturns ==
    \/ \E u \in {NULL, 1}, return_data \in ReturnPayloads :
         create_return_request(u, return_data)
    \/ \E a \in {"on", "off"} : update_order(1, "keep", "keep", a)

SpecReturns == InitReturns /\ [][NextReturns]_vars

\* the order items that return request id links
ReturnedItems(T, id) ==
    {T.return_items[k].order_item_id :
        k \in {x \in DOMAIN T.return_items : T.return_items[x].return_request_id = id}}

\* the return request that the last call created is of its order and holds
\* the payload's reason, description, evidence flag and image list, and the
\* order is in status return_requested
ReturnRecorded ==
    LET data == last.data
        row == db.returns[last.return_id]
    IN /\ db.orders[data.order_id].status = "return_requested"
       /\ row.order_id = data.order_id
       /\ row.reason = data.reason
       /\ row.description = data.description
       /\ row.has_unboxing_video = data.has_unboxing_video
       /\ json_loads_images(row.images) = data.images

\* C17, as stated: an accepted return request is recorded with its payload
\* and has one ReturnRequestItem for every item id selected.
C17_ReturnLinksEverySelected ==
    (last.op = "create_return_request" /\ last.code = 201)
        => /\ ReturnRecorded
           /\ ReturnedItems(db, last.return_id) = last.data.item_ids
           /\ Cardinality({k \in DOMAIN db.return_items :
                             db.return_items[k].return_request_id = last.return_id})
                = Cardinality(last.data.item_ids)

\* C17, amended: an accepted return request is recorded with its payload and
\* has one ReturnRequestItem for every selected id that is an item of the
\* order; a selected id that is not is passed over without an error.
C17_ReturnLinksOwnItems ==
    (last.op = "create_return_request" /\ last.code = 201)
        => LET own == last.data.item_ids \cap ItemsOf(db, last.data.order_id)
           IN /\ ReturnRecorded
              /\ ReturnedItems(db, last.return_id) = own
              /\ Cardinality({k \in DOMAIN db.return_items :
                                db.return_items[k].return_request_id = last.return_id})
                    = Cardinality(own)

\* a request for order 1 with images that selects an item of the order and
\* the item of order 2 was accepted
C17_Witness ==
    /\ last.op = "create_return_request" /\ last.code = 201
    /\ last.data.order_id = 1
    /\ last.data.item_ids = {1, 3}
    /\ last.data.images # <<>>
    /\ ReturnedItems(db, last.return_id) = {1}

(***************************************************************************)
(* Catalogues and products (services/catalogue_service.py).                *)
(***************************************************************************)
MaxProducts == 2
MaxVariants == 2
MaxCalls == 3
MaxBulk == 2

CatalogueIds == 1 .. 2
ProductIds == 1 .. MaxProducts
ProductStatus == {"draft", "live", "archived"}

\* the outcome of the last catalogue call: its HTTP status, the row it was
\* about and, for a storefront read, the products returned
Found(op, code, id, ids) == [op |-> op, code |-> code, id |-> id, ids |-> ids]

ProductsOf(T, c) == {p \in DOMAIN T.products : T.products[p].catalogue_id = c}

\* what a create_product / bulk-upload request becomes when an item ends
AfterItem(q) == IF q.more > 0 THEN [pc |-> "next", more |-> q.more - 1] ELSE IdleReq

\* ProductService.bulk_upload_products: the loop over k + 1 payloads
bulk_upload_products(r, k) ==
    /\ req[r].pc = "idle"
    /\ req' = [req EXCEPT ![r] = [pc |-> "next", more |-> k]]
    /\ UNCHANGED <<db, tx, lock, last, env>>

\* a payload without a selling price (price: Optional[int] = None)
NoPrice == -1

\* price=product_data.price or product_data.mrp: a price of 0 is falsy
price_or_mrp(price, mrp) == IF price = NoPrice \/ price = 0 THEN mrp ELSE price

\* ProductService.create_product up to the first flush: the catalogue
\* check (404), the category taken from the catalogue (400 when it has
\* none, 404 when it is gone), the brand check (404), then the Product
\* insert, whose flush may raise
create_product_begin(r, c, b, status, nv, fw, ok, price, mrp) ==
    /\ req[r].pc \in {"idle", "next"}
    /\ env.calls < MaxCalls
    /\ LET V == View(r)
           q == IF req[r].pc = "next" THEN req[r] ELSE [pc |-> "next", more |-> 0]
           call == env.calls + 1
       IN IF \/ c \notin DOMAIN V.catalogues
             \/ V.catalogues[c].category_id = NULL
             \/ V.catalogues[c].category_id \notin DOMAIN V.categories
             \/ (b # NULL /\ b \notin DOMAIN V.brands)
          THEN /\ UNCHANGED <<db, tx, lock>>
               /\ last' = Found("create_product",
                                IF c \in DOMAIN V.catalogues /\ V.catalogues[c].category_id = NULL
                                THEN 400 ELSE 404, NULL, {})
               /\ req' = [req EXCEPT ![r] = AfterItem(q)]
               /\ env' = [env EXCEPT !.calls = call]
          ELSE IF ok
          THEN /\ CanWrite(r)
               /\ NextId(V.products) <= MaxProducts
               /\ Write(r, [V EXCEPT !.products =
                        Insert(@, [catalogue_id |-> c, brand_id |-> b, status |-> status,
                                   deleted |-> FALSE, call |-> call,
                                   price |-> price_or_mrp(price, mrp), mrp |-> mrp])])
               /\ req' = [req EXCEPT ![r] =
                        [pc |-> "variants", more |-> q.more, call |-> call,
                         product_id |-> NextId(V.products), left |-> nv, footwear |-> fw,
                         price |-> price, mrp |-> mrp]]
               /\ env' = [env EXCEPT !.calls = call]
               /\ UNCHANGED last
          ELSE /\ db_rollback(r)
               /\ last' = Found("create_product", 500, NULL, {})
               /\ req' = [req EXCEPT ![r] = AfterItem(q)]
               /\ env' = [env EXCEPT !.calls = call, !.failed = @ \cup {call}]

\* ... one pass of the variant loop: the ProductVariant insert and flush,
\* and its size option, which holds the stock
create_product_variant(r, stock, ok) ==
    /\ req[r].pc = "variants"
    /\ req[r].left > 0
    /\ CanWrite(r)
    /\ LET V == View(r)
           q == req[r]
           v == NextId(V.variants)
       IN IF ok
          THEN /\ Write(r, [V EXCEPT
                        !.variants = Insert(@, [product_id |-> q.product_id, is_active |-> TRUE,
                                                deleted |-> FALSE, call |-> q.call]),
                        !.options = Insert(@, [variant_id |-> v, stock_quantity |-> stock,
                                               call |-> q.call])])
               /\ req' = [req EXCEPT ![r].left = @ - 1]
               /\ UNCHANGED <<last, env>>
          ELSE /\ db_rollback(r)
               /\ last' = Found("create_product", 500, q.product_id, {})
               /\ req' = [req EXCEPT ![r] = AfterItem(q)]
               /\ env' = [env EXCEPT !.failed = @ \cup {q.call}]

\* ... the footwear details, if given, and db.commit()
create_product_commit(r, ok) ==
    /\ req[r].pc = "variants"
    /\ req[r].left = 0
    /\ CanWrite(r)
    /\ LET V == View(r)
           q == req[r]
       IN IF ok
          THEN /\ Commit(IF q.footwear
                         THEN [V EXCEPT !.footwear =
                                [p \in DOMAIN @ \cup {q.product_id} |->
                                    IF p = q.product_id THEN [call |-> q.call] ELSE @[p]]]
                         ELSE V)
               /\ last' = Found("create_product", 201, q.product_id, {})
               /\ UNCHANGED env
          ELSE /\ db_rollback(r)
               /\ last' = Found("create_product", 500, q.product_id, {})
               /\ env' = [env EXCEPT !.failed = @ \cup {q.call}]
    /\ req' = [req EXCEPT ![r] = AfterItem(req[r])]

\* ProductService.update_product with a status in the payload; get_product
\* does not look at deleted_at
update_product(p, status) ==
    /\ lock = NULL
    /\ IF p \in DOMAIN db.products
       THEN /\ Commit([db EXCEPT !.products[p].status = status])
            /\ last' = Found("update_product", 200, p, {})
       ELSE /\ UNCHANGED <<db, tx, lock>>
            /\ last' = Found("update_product", 404, p, {})
    /\ UNCHANGED <<req, env>>

\* a soft delete that stops at the product row
MarkDeleted_product_only(variants, p, d) == variants

\* for variant in product.variants: variant.deleted_at = d
MarkDeleted(variants, p, d) ==
    [v \in DOMAIN variants |->
        IF variants[v].product_id = p THEN [variants[v] EXCEPT !.deleted = d] ELSE variants[v]]

\* SoftDeleteService.soft_delete_product
soft_delete_product(p) ==
    /\ lock = NULL
    /\ IF p \in DOMAIN db.products /\ ~ db.products[p].deleted
       THEN /\ Commit([db EXCEPT !.products[p].deleted = TRUE,
                                 !.products[p].status = "archived",
                                 !.variants = MarkDeleted(@, p, TRUE)])
            /\ last' = Found("soft_delete_product", 200, p, {})
       ELSE /\ UNCHANGED <<db, tx, lock>>
            /\ last' = Found("soft_delete_product", 404, p, {})
    /\ UNCHANGED <<req, env>>

\* SoftDeleteService.restore_product
restore_product(p) ==
    /\ lock = NULL
    /\ IF p \in DOMAIN db.products /\ db.products[p].deleted
       THEN /\ Commit([db EXCEPT !.products[p].deleted = FALSE,
                                 !.products[p].status = "draft",
                                 !.variants = MarkDeleted(@, p, FALSE)])
            /\ last' = Found("restore_product", 200, p, {})
       ELSE /\ UNCHANGED <<db, tx, lock>>
            /\ last' = Found("restore_product", 404, p, {})
    /\ UNCHANGED <<req, env>>

\* Catalogue.products carries no delete cascade and products.catalogue_id
\* is NOT NULL: deleting a catalogue makes the ORM blank the foreign key of
\* its products, which the flush refuses
catalogue_delete_refused(T, c) == ProductsOf(T, c) # {}

\* CatalogueService.delete_catalogue
delete_catalogue(c) ==
    /\ lock = NULL
    /\ IF c \notin DOMAIN db.catalogues
       THEN /\ UNCHANGED <<db, tx, lock>>
            /\ last' = Found("delete_catalogue", 404, c, {})
       ELSE IF catalogue_delete_refused(db, c)
       THEN /\ UNCHANGED <<db, tx, lock>>
            /\ last' = Found("delete_catalogue", 500, c, {})
       ELSE /\ Commit([db EXCEPT !.catalogues = Remove(@, c)])
            /\ last' = Found("delete_catalogue", 200, c, {})
    /\ UNCHANGED <<req, env>>

\* ProductListingService.get_product_listing: the base filter
get_product_listing ==
    /\ last' = Found("get_product_listing", 200, NULL,
                     {p \in DOMAIN db.products :
                        ~ db.products[p].deleted /\ db.products[p].status = "live"})
    /\ UNCHANGED <<db, tx, lock, req, env>>

\* GET /products/{product_id} and /products/slug/{slug} of the storefront
get_product(p) ==
    /\ IF /\ p \in DOMAIN db.products
          /\ ~ (db.products[p].status # "live" \/ db.products[p].deleted)
       THEN last' = Found("get_product", 200, p, {p})
       ELSE last' = Found("get_product", 404, p, {})
    /\ UNCHANGED <<db, tx, lock, req, env>>

\* ProductService.get_color_options behind GET /products/{product_id}/colors
get_color_options(p) ==
    /\ IF p \in DOMAIN db.products
       THEN last' = Found("get_color_options", 200, p,
                          {s \in DOMAIN db.products :
                              /\ db.products[s].catalogue_id = db.products[p].catalogue_id
                              /\ db.products[s].status = "live"})
       ELSE last' = Found("get_color_options", 404, p, {})
    /\ UNCHANGED <<db, tx, lock, req, env>>

\* a platform, a category of it, two catalogues of the category and no
\* product yet
CatalogueSeed ==
    [EmptyDb EXCEPT
        !.platforms = [p \in {1} |-> [is_active |-> TRUE]],
        !.categories = [c \in {1} |-> [platform_id |-> 1, parent_id |-> NULL]],
        !.catalogues = [c \in CatalogueIds |-> [is_active |-> TRUE, category_id |-> 1,
                                                banner_media_id |-> NULL]]]

InitCatalogue ==
    /\ db = CatalogueSeed
    /\ tx = CatalogueSeed
    /\ lock = NULL
    /\ req = [r \in Reqs |-> IdleReq]
    /\ last = Found("none", 200, NULL, {})
    /\ env = EnvInit

\* product creation: the single endpoint and the bulk upload
NextProducts ==
    \/ \E r \in Reqs, k \in 1 .. MaxBulk - 1 : bulk_upload_products(r, k)
    \/ \E r \in Reqs, c \in CatalogueIds, nv \in 0 .. MaxVariants,
          fw \in BOOLEAN, ok \in BOOLEAN :
         create_product_begin(r, c, NULL, "live", nv, fw, ok, NoPrice, 1)
    \/ \E r \in Reqs, ok \in BOOLEAN : create_product_variant(r, 0, ok)
    \/ \E r \in Reqs, ok \in BOOLEAN : create_product_commit(r, ok)
    \/ \E c \in CatalogueIds : delete_catalogue(c)

SpecProducts == InitCatalogue /\ [][NextProducts]_vars

\* the life of a product and what the storefront shows of it
NextCatalogue ==
    \/ \E r \in Reqs, c \in CatalogueIds, status \in {"draft", "live"}, ok \in BOOLEAN :
         create_product_begin(r, c, NULL, status, 1, TRUE, ok, NoPrice, 1)
    \/ \E r \in Reqs, ok \in BOOLEAN : create_product_variant(r, 0, ok)
    \/ \E r \in Reqs, ok \in BOOLEAN : create_product_commit(r, ok)
    \/ \E p \in ProductIds, status \in ProductStatus : update_product(p, status)
    \/ \E p \in ProductIds : soft_delete_product(p)
    \/ \E p \in ProductIds : restore_product(p)
    \/ \E c \in CatalogueIds : delete_catalogue(c)
    \/ get_product_listing
    \/ \E p \in ProductIds : get_product(p)
    \/ \E p \in ProductIds : get_color_options(p)

SpecCatalogue == InitCatalogue /\ [][NextCatalogue]_vars

\* the rows of tables T that a failed create_product call wrote
WrittenByFailedCall(T) ==
    {<<"product", p>> : p \in {x \in DOMAIN T.products : T.products[x].call \in env.failed}}
    \cup {<<"variant", v>> : v \in {x \in DOMAIN T.variants : T.variants[x].call \in env.failed}}
    \cup {<<"option", o>> : o \in {x \in DOMAIN T.options : T.options[x].call \in env.failed}}
    \cup {<<"footwear", f>> : f \in {x \in DOMAIN T.footwear : T.footwear[x].call \in env.failed}}

\* C4: when create_product fails after the Product row was inserted, no
\* row that call wrote is in the committed database, nor in what any
\* request about to start an operation reads (the next item of the same
\* bulk upload included).
C4_NoPartialProduct ==
    /\ WrittenByFailedCall(db) = {}
    /\ \A r \in Reqs : req[r].pc \in {"idle", "next"} => WrittenByFailedCall(View(r)) = {}

\* an item of a bulk upload failed after its Product row was flushed, a
\* product committed earlier is there, and the upload has items to go
C4_Witness ==
    /\ last.op = "create_product" /\ last.code = 500 /\ last.id # NULL
    /\ DOMAIN db.products # {}
    /\ \E r \in Reqs : req[r].pc = "next"

\* C7: the storefront listing, the storefront product detail and the
\* colour options return only products that are live and not soft-deleted.
C7_StorefrontLiveOnly ==
    last.op \in {"get_product_listing", "get_product", "get_color_options"}
        => \A p \in last.ids :
              /\ p \in DOMAIN db.products
              /\ db.products[p].status = "live"
              /\ ~ db.products[p].deleted

\* C12: a soft delete leaves the product with its delete timestamp set and
\* status archived, and every variant of it with the timestamp set; a
\* restore leaves the product and every variant of it with the timestamp
\* cleared and the product in status draft, whatever its status was before.
C12_SoftDeleteRestore ==
    /\ (last.op = "soft_delete_product" /\ last.code = 200)
          => /\ db.products[last.id].deleted
             /\ db.products[last.id].status = "archived"
             /\ \A v \in VariantsOf(db, last.id) : db.variants[v].deleted
    /\ (last.op = "restore_product" /\ last.code = 200)
          => /\ ~ db.products[last.id].deleted
             /\ db.products[last.id].status = "draft"
             /\ \A v \in VariantsOf(db, last.id) : ~ db.variants[v].deleted

\* a product with a variant was restored while another product, live, was
\* never deleted
C12_Witness ==
    /\ last.op = "restore_product" /\ last.code = 200
    /\ VariantsOf(db, last.id) # {}
    /\ \E p \in DOMAIN db.products : p # last.id /\ db.products[p].status = "live"

\* C10: deleting a catalogue deletes it and all of its products (and with
\* them their variants, media and footwear details): after a
\* delete_catalogue call on an existing catalogue none of them remains.
C10_DeleteCatalogueCascades ==
    (last.op = "delete_catalogue" /\ last.code # 404)
        => /\ last.id \notin DOMAIN db.catalogues
           /\ ProductsOf(db, last.id) = {}
           /\ \A v \in DOMAIN db.variants : db.variants[v].product_id \in DOMAIN db.products
           /\ \A f \in DOMAIN db.footwear : f \in DOMAIN db.products

(***************************************************************************)
(* The buy-intent endpoint of the storefront                               *)
(* (routers/v1/catalogue_router/catalogue_router.py).                      *)
(***************************************************************************)
MaxStock == 3
MaxQuantity == 3

VariantIds == 1 .. MaxVariants
OptionIds == 1 .. MaxVariants
Channels == {"whatsapp", "instagram"}

\* reading an attribute that the mapped class does not declare raises
AttributeError == "AttributeError"

\* getattr(row, name) on an ORM instance
getattr(row, name) == IF name \in DOMAIN row THEN row[name] ELSE AttributeError

RECURSIVE SumStock(_, _)
SumStock(options, S) ==
    IF S = {} THEN 0
    ELSE LET o == CHOOSE x \in S : TRUE
         IN options[o].stock_quantity + SumStock(options, S \ {o})

\* variant_to_dict: the stock of a variant is the stock of its options
VariantStock(T, v) == SumStock(T.options, {o \in DOMAIN T.options : T.options[o].variant_id = v})

\* the outcome of a buy-intent request: the request and the payload
BuyIntent(p, v, quantity, channel, code, success, redirect_url, available) ==
    [op |-> "create_buy_intent", id |-> p, variant_id |-> v, quantity |-> quantity,
     channel |-> channel, code |-> code, success |-> success,
     redirect_url |-> redirect_url, available |-> available]

\* the product filter of create_buy_intent
buy_intent_product(T, p) ==
    p \in DOMAIN T.products /\ T.products[p].status = "live" /\ ~ T.products[p].deleted

\* the variant filter of create_buy_intent
buy_intent_variant(T, p, v) ==
    /\ v \in DOMAIN T.variants
    /\ T.variants[v].product_id = p
    /\ T.variants[v].is_active
    /\ ~ T.variants[v].deleted

\* create_buy_intent: the handler reads variant.stock_quantity, and an
\* exception that is not an HTTPException is answered by
\* general_exception_handler with status 500
create_buy_intent(p, v, quantity, channel) ==
    /\ LET stock == getattr(db.variants[v], "stock_quantity")
           Answer(code, success, url, available) ==
               BuyIntent(p, v, quantity, channel, code, success, url, available)
       IN last' =
            IF ~ buy_intent_product(db, p) THEN Answer(404, FALSE, "", NULL)
            ELSE IF ~ buy_intent_variant(db, p, v) THEN Answer(404, FALSE, "", NULL)
            ELSE IF stock = AttributeError THEN Answer(500, FALSE, "", NULL)
            ELSE IF ~ (stock >= quantity) THEN Answer(200, FALSE, "", stock)
            ELSE IF channel = "whatsapp" THEN Answer(200, TRUE, "https://wa.me/", NULL)
            ELSE IF channel = "instagram" THEN Answer(200, TRUE, "https://ig.me/m/", NULL)
            ELSE Answer(400, FALSE, "", NULL)
    /\ UNCHANGED <<db, tx, lock, req, env>>

\* VariantOptionService.update_stock
update_stock(o, quantity) ==
    /\ lock = NULL
    /\ IF o \in DOMAIN db.options
       THEN /\ Commit([db EXCEPT !.options[o].stock_quantity = quantity])
            /\ last' = Found("update_stock", 200, o, {})
       ELSE /\ UNCHANGED <<db, tx, lock>>
            /\ last' = Found("update_stock", 404, o, {})
    /\ UNCHANGED <<req, env>>

\* a live product with an active and an inactive size, two in stock of each
BuyIntentSeed ==
    [CatalogueSeed EXCEPT
        !.products = [p \in {1} |-> [catalogue_id |-> 1, brand_id |-> NULL, status |-> "live",
                                    deleted |-> FALSE, call |-> NULL,
                                    price |-> 1, mrp |-> 1]],
        !.variants = [v \in VariantIds |-> [product_id |-> 1, is_active |-> v = 1,
                                           deleted |-> FALSE, call |-> NULL]],
        !.options = [o \in OptionIds |-> [variant_id |-> o, stock_quantity |-> 2,
                                         call |-> NULL]]]

InitBuyIntent ==
    /\ db = BuyIntentSeed
    /\ tx = BuyIntentSeed
    /\ lock = NULL
    /\ req = [r \in Reqs |-> IdleReq]
    /\ last = Found("none", 200, NULL, {})
    /\ env = EnvInit

\* the shop is stocked and managed while customers ask to buy
NextBuyIntent ==
    \/ \E o \in OptionIds, quantity \in 0 .. MaxStock : update_stock(o, quantity)
    \/ \E p \in ProductIds, status \in ProductStatus : update_product(p, status)
    \/ \E p \in ProductIds : soft_delete_product(p)
    \/ \E p \in ProductIds : restore_product(p)
    \/ \E p \in ProductIds, v \in VariantIds, quantity \in 1 .. MaxQuantity, channel \in Channels :
         create_buy_intent(p, v, quantity, channel)

SpecBuyIntent == InitBuyIntent /\ [][NextBuyIntent]_vars

\* C14: for a live, non-deleted product and an active variant of it,
\* create_buy_intent answers normally; the payload has success = TRUE and a
\* redirect URL exactly when the variant's stock is at least the quantity
\* asked for, and otherwise success = FALSE, no redirect URL and the
\* quantity available.
C14_BuyIntentStockGate ==
    (/\ last.op = "create_buy_intent"
     /\ buy_intent_product(db, last.id)
     /\ buy_intent_variant(db, last.id, last.variant_id))
        => /\ last.code = 200
           /\ last.success <=> VariantStock(db, last.variant_id) >= last.quantity
           /\ last.success => last.redirect_url # ""
           /\ ~ last.success
                => /\ last.redirect_url = ""
                   /\ last.available = VariantStock(db, last.variant_id)

(***************************************************************************)
(* Platforms, brands, categories and the deletes that are refused while    *)
(* something is owned (services/catalogue_service.py).  The admin routes   *)
(* are plain functions, so every request runs on its own worker thread     *)
(* with its own session; a SELECT takes no lock, the write lock is taken   *)
(* at the first INSERT / UPDATE / DELETE of the flush.                     *)
(***************************************************************************)
MaxPlatforms == 1
MaxBrands == 1
MaxCategories == 2

PlatformIds == 1 .. MaxPlatforms
BrandIds == 1 .. MaxBrands
CategoryIds == 1 .. MaxCategories

\* the requests that stand at position pc
Standing(pc) == {r \in Reqs : req[r].pc = pc}

CategoriesOf(T, p) == {c \in DOMAIN T.categories : T.categories[c].platform_id = p}

ChildrenOf(T, c) == {k \in DOMAIN T.categories : T.categories[k].parent_id = c}

CataloguesOf(T, c) == {k \in DOMAIN T.catalogues : T.catalogues[k].category_id = c}

BrandProducts(T, b) == {p \in DOMAIN T.products : T.products[p].brand_id = b}

\* PlatformService.create_platform
create_platform ==
    /\ lock = NULL
    /\ NextId(db.platforms) <= MaxPlatforms
    /\ Commit([db EXCEPT !.platforms = Insert(@, [is_active |-> TRUE])])
    /\ last' = Found("create_platform", 201, NextId(db.platforms), {})
    /\ UNCHANGED <<req, env>>

\* BrandService.create_brand
create_brand ==
    /\ lock = NULL
    /\ NextId(db.brands) <= MaxBrands
    /\ Commit([db EXCEPT !.brands = Insert(@, [is_active |-> TRUE])])
    /\ last' = Found("create_brand", 201, NextId(db.brands), {})
    /\ UNCHANGED <<req, env>>

\* CategoryService.create_category, the checks: the platform exists, the
\* parent exists if one is given
create_category_check(r, p, parent) ==
    /\ req[r].pc = "idle"
    /\ NextId(db.categories) + Cardinality(Standing("insert_category")) <= MaxCategories
    /\ IF p \notin DOMAIN db.platforms \/ (parent # NULL /\ parent \notin DOMAIN db.categories)
       THEN /\ last' = Found("create_category", 404, NULL, {})
            /\ UNCHANGED req
       ELSE /\ req' = [req EXCEPT ![r] = [pc |-> "insert_category", platform_id |-> p,
                                         parent_id |-> parent]]
            /\ UNCHANGED last
    /\ UNCHANGED <<db, tx, lock, env>>

\* ... db.add(category), db.commit()
create_category_insert(r) ==
    /\ req[r].pc = "insert_category"
    /\ lock = NULL
    /\ Commit([db EXCEPT !.categories =
            Insert(@, [platform_id |-> req[r].platform_id, parent_id |-> req[r].parent_id])])
    /\ last' = Found("create_category", 201, NextId(db.categories), {})
    /\ req' = [req EXCEPT ![r] = IdleReq]
    /\ UNCHANGED env

\* CatalogueService.create_catalogue, the check: the category exists
create_catalogue_check(r, c) ==
    /\ req[r].pc = "idle"
    /\ NextId(db.catalogues) + Cardinality(Standing("insert_catalogue")) \in CatalogueIds
    /\ IF c \notin DOMAIN db.categories
       THEN /\ last' = Found("create_catalogue", 404, NULL, {})
            /\ UNCHANGED req
       ELSE /\ req' = [req EXCEPT ![r] = [pc |-> "insert_catalogue", category_id |-> c]]
            /\ UNCHANGED last
    /\ UNCHANGED <<db, tx, lock, env>>

\* ... db.add(catalogue), db.commit()
create_catalogue_insert(r) ==
    /\ req[r].pc = "insert_catalogue"
    /\ lock = NULL
    /\ Commit([db EXCEPT !.catalogues =
            Insert(@, [is_active |-> TRUE, category_id |-> req[r].category_id,
                       banner_media_id |-> NULL])])
    /\ last' = Found("create_catalogue", 201, NextId(db.catalogues), {})
    /\ req' = [req EXCEPT ![r] = IdleReq]
    /\ UNCHANGED env

\* the first half of a delete: get_* (404), then the ownership check
\* (400); NULL when the delete goes on
delete_refusal(exists, owns) == IF ~ exists THEN 404 ELSE IF owns THEN 400 ELSE NULL

\* PlatformService.delete_platform up to db.delete(platform)
delete_platform_check(r, p) ==
    /\ req[r].pc = "idle"
    /\ LET code == delete_refusal(p \in DOMAIN db.platforms, CategoriesOf(db, p) # {})
       IN IF code # NULL
          THEN /\ last' = Found("delete_platform", code, p, {})
               /\ UNCHANGED req
          ELSE /\ req' = [req EXCEPT ![r] = [pc |-> "delete_platform", id |-> p]]
               /\ UNCHANGED last
    /\ UNCHANGED <<db, tx, lock, env>>

\* ... db.delete(platform), db.commit(): the flush loads platform.categories
\* and blanks their platform_id, which is NOT NULL, before the DELETE
delete_platform_flush(r) ==
    /\ req[r].pc = "delete_platform"
    /\ lock = NULL
    /\ LET p == req[r].id
       IN IF CategoriesOf(db, p) # {}
          THEN /\ UNCHANGED <<db, tx, lock>>
               /\ last' = Found("delete_platform", 500, p, {})
          ELSE /\ Commit([db EXCEPT !.platforms = Remove(@, p)])
               /\ last' = Found("delete_platform", 204, p, {})
    /\ req' = [req EXCEPT ![r] = IdleReq]
    /\ UNCHANGED env

\* CategoryService.delete_category up to db.delete(category)
delete_category_check(r, c) ==
    /\ req[r].pc = "idle"
    /\ LET code == delete_refusal(c \in DOMAIN db.categories, ChildrenOf(db, c) # {} \/ CataloguesOf(db, c) # {})
       IN IF code # NULL
          THEN /\ last' = Found("delete_category", code, c, {})
               /\ UNCHANGED req
          ELSE /\ req' = [req EXCEPT ![r] = [pc |-> "delete_category", id |-> c]]
               /\ UNCHANGED last
    /\ UNCHANGED <<db, tx, lock, env>>

\* ... db.delete(category), db.commit(): the flush loads the children and
\* the catalogues and blanks their parent_id / category_id (both nullable)
delete_category_flush(r) ==
    /\ req[r].pc = "delete_category"
    /\ lock = NULL
    /\ LET c == req[r].id
       IN Commit([db EXCEPT
            !.categories = [k \in DOMAIN @ \ {c} |->
                                IF @[k].parent_id = c THEN [@[k] EXCEPT !.parent_id = NULL]
                                ELSE @[k]],
            !.catalogues = [k \in DOMAIN @ |->
                                IF @[k].category_id = c THEN [@[k] EXCEPT !.category_id = NULL]
                                ELSE @[k]]])
    /\ last' = Found("delete_category", 204, req[r].id, {})
    /\ req' = [req EXCEPT ![r] = IdleReq]
    /\ UNCHANGED env

\* BrandService.delete_brand up to db.delete(brand)
delete_brand_check(r, b) ==
    /\ req[r].pc = "idle"
    /\ LET code == delete_refusal(b \in DOMAIN db.brands, BrandProducts(db, b) # {})
       IN IF code # NULL
          THEN /\ last' = Found("delete_brand", code, b, {})
               /\ UNCHANGED req
          ELSE /\ req' = [req EXCEPT ![r] = [pc |-> "delete_brand", id |-> b]]
               /\ UNCHANGED last
    /\ UNCHANGED <<db, tx, lock, env>>

\* ... db.delete(brand), db.commit(): the flush loads brand.products and
\* blanks their brand_id (nullable)
delete_brand_flush(r) ==
    /\ req[r].pc = "delete_brand"
    /\ lock = NULL
    /\ LET b == req[r].id
       IN Commit([db EXCEPT
            !.brands = Remove(@, b),
            !.products = [k \in DOMAIN @ |->
                                IF @[k].brand_id = b THEN [@[k] EXCEPT !.brand_id = NULL]
                                ELSE @[k]]])
    /\ last' = Found("delete_brand", 204, req[r].id, {})
    /\ req' = [req EXCEPT ![r] = IdleReq]
    /\ UNCHANGED env

\* init_db on a fresh file: no row anywhere
InitHierarchy ==
    /\ db = EmptyDb
    /\ tx = EmptyDb
    /\ lock = NULL
    /\ req = [r \in Reqs |-> IdleReq]
    /\ last = Found("none", 200, NULL, {})
    /\ env = EnvInit

\* the admin's work on the hierarchy
NextHierarchy ==
    \/ create_platform
    \/ create_brand
    \/ \E r \in Reqs, p \in PlatformIds, parent \in {NULL} \cup CategoryIds :
         create_category_check(r, p, parent)
    \/ \E r \in Reqs : create_category_insert(r)
    \/ \E r \in Reqs, c \in CategoryIds : create_catalogue_check(r, c)
    \/ \E r \in Reqs : create_catalogue_insert(r)
    \/ \E r \in Reqs, c \in CatalogueIds, b \in BrandIds :
         create_product_begin(r, c, b, "live", 0, FALSE, TRUE, NoPrice, 1)
    \/ \E r \in Reqs : create_product_commit(r, TRUE)
    \/ \E r \in Reqs, p \in PlatformIds : delete_platform_check(r, p)
    \/ \E r \in Reqs : delete_platform_flush(r)
    \/ \E r \in Reqs, c \in CategoryIds : delete_category_check(r, c)
    \/ \E r \in Reqs : delete_category_flush(r)
    \/ \E r \in Reqs, b \in BrandIds : delete_brand_check(r, b)
    \/ \E r \in Reqs : delete_brand_flush(r)

SpecHierarchy == InitHierarchy /\ [][NextHierarchy]_vars

\* C11: delete_platform, delete_category and delete_brand are refused while
\* the row owns a category, a catalogue or child category, a product; so a
\* delete that went through left nothing that refers to the deleted row, and
\* no category, catalogue or product refers to a platform, category or brand
\* that is not there.
C11_NoDanglingOwner ==
    /\ \A c \in DOMAIN db.categories :
          /\ db.categories[c].platform_id \in DOMAIN db.platforms
          /\ db.categories[c].parent_id # NULL
                => db.categories[c].parent_id \in DOMAIN db.categories
    /\ \A k \in DOMAIN db.catalogues :
          db.catalogues[k].category_id # NULL
                => db.catalogues[k].category_id \in DOMAIN db.categories
    /\ \A p \in DOMAIN db.products :
          db.products[p].brand_id # NULL => db.products[p].brand_id \in DOMAIN db.brands

(***************************************************************************)
(* The authentication gate (utils/auth_dependencies.py,                    *)
(* services/auth_service.py).  A request carries no token (NULL), the      *)
(* token of a user, the token of an account without a user_profile row,    *)
(* or a token the identity backend does not verify.                        *)
(***************************************************************************)
NoProfile == 3
BadToken == 4

Tokens == {NULL} \cup Users \cup {NoProfile, BadToken}

\* the outcome of the last auth-gated request or admin call
Auth(op, code, challenge, token) ==
    [op |-> op, code |-> code, challenge |-> challenge, token |-> token]

\* verify_jwt_token: the user id, or None
verify_jwt_token(token) == IF token = BadToken THEN NULL ELSE token

\* a gate that lets every profile through
profile_refused_never(status) == FALSE

\* get_current_user_from_token: user_profile.get("status") != ACTIVE
profile_refused(status) == status # "ACTIVE"

\* get_token_from_header, then the request waits on the identity backend
auth_request(r, token, route) ==
    /\ req[r].pc = "idle"
    /\ IF token = NULL
       THEN /\ last' = Auth("request", 401, TRUE, token)
            /\ UNCHANGED req
       ELSE /\ req' = [req EXCEPT ![r] = [pc |-> "token", token |-> token, route |-> route]]
            /\ UNCHANGED last
    /\ UNCHANGED <<db, tx, lock, env>>

\* get_current_user_from_token: verify_jwt_token
auth_verify(r) ==
    /\ req[r].pc = "token"
    /\ IF verify_jwt_token(req[r].token) = NULL
       THEN /\ last' = Auth("request", 401, TRUE, req[r].token)
            /\ req' = [req EXCEPT ![r] = IdleReq]
       ELSE /\ req' = [req EXCEPT ![r] = [@ EXCEPT !.pc = "profile"]
                                            @@ [user_id |-> verify_jwt_token(req[r].token)]]
            /\ UNCHANGED last
    /\ UNCHANGED <<db, tx, lock, env>>

\* get_current_user_from_token: the user_profile row and its status; then
\* get_current_active_user on the routes that depend on it
auth_profile(r) ==
    /\ req[r].pc = "profile"
    /\ LET u == req[r].user_id
       IN IF u \notin DOMAIN env.profile
          THEN last' = Auth("request", 401, FALSE, req[r].token)
          ELSE IF profile_refused(env.profile[u])
          THEN last' = Auth("request", 403, FALSE, req[r].token)
          ELSE IF req[r].route = "active" /\ env.profile[u] # "ACTIVE"
          THEN last' = Auth("request", 403, FALSE, req[r].token)
          ELSE last' = Auth("request", 200, FALSE, req[r].token)
    /\ req' = [req EXCEPT ![r] = IdleReq]
    /\ UNCHANGED <<db, tx, lock, env>>

\* UserService.block_user / unblock_user: the status the profile is set to
set_user_status(u, op, status) ==
    /\ IF u \in DOMAIN env.profile
       THEN /\ env' = [env EXCEPT !.profile[u] = status]
            /\ last' = Auth(op, 200, FALSE, u)
       ELSE /\ last' = Auth(op, 404, FALSE, u)
            /\ UNCHANGED env
    /\ UNCHANGED <<db, tx, lock, req>>

block_user(u) == set_user_status(u, "block_user", "BLOCKED")

unblock_user(u) == set_user_status(u, "unblock_user", "ACTIVE")

InitAuth ==
    /\ db = EmptyDb
    /\ tx = EmptyDb
    /\ lock = NULL
    /\ req = [r \in Reqs |-> IdleReq]
    /\ last = Auth("none", 200, FALSE, NULL)
    /\ env = EnvInit

NextAuth ==
    \/ \E r \in Reqs, token \in Tokens, route \in {"user", "active"} :
         auth_request(r, token, route)
    \/ \E r \in Reqs : auth_verify(r)
    \/ \E r \in Reqs : auth_profile(r)
    \/ \E u \in Users \cup {NoProfile} : block_user(u)
    \/ \E u \in Users \cup {NoProfile} : unblock_user(u)

SpecAuth == InitAuth /\ [][NextAuth]_vars

\* C8: an authentication-required route is served only on a token that
\* resolves to a user whose profile is ACTIVE; no token gives 401 with the
\* Bearer challenge, an unresolvable token 401, a non-ACTIVE account 403.
\* So no request of a blocked user is served until the user is unblocked.
C8_ServedOnlyWhenActive ==
    last.op = "request"
        => /\ last.code = 200
                => last.token \in Users /\ env.profile[last.token] = "ACTIVE"
           /\ last.token = NULL => last.code = 401 /\ last.challenge
           /\ last.token \in {BadToken, NoProfile} => last.code = 401
           /\ (last.token \in Users /\ env.profile[last.token] # "ACTIVE")
                => last.code = 403

\* a request of a blocked user was refused
C8_Witness ==
    /\ last.op = "request" /\ last.code = 403
    /\ last.token \in Users /\ env.profile[last.token] = "BLOCKED"

\* RoleName, and the rows of the identity backend's roles table: the role
\* names that have a role_id
RoleNames == {"ADMIN", "CUSTOMER", "DELIVERY"}

RoleIds == [r \in {"ADMIN", "CUSTOMER"} |-> IF r = "ADMIN" THEN 1 ELSE 2]

\* the outcome of a role call: held tells whether the user held the role
\* when the call began
RoleReply(op, user_id, role_name, held, code, success) ==
    [op |-> op, user_id |-> user_id, role_name |-> role_name, held |-> held,
     code |-> code, success |-> success]

\* the number of user_roles rows of user u and role role_id
Assignments(user_roles, u, role_id) == user_roles[<<u, role_id>>]

\* a lookup that finds nothing
role_assigned_never(user_roles, u, role_id) == FALSE

\* assign_role: existing.data and len(existing.data) > 0
role_assigned(user_roles, u, role_id) == Assignments(user_roles, u, role_id) > 0

\* UserService.assign_role behind POST /users/{user_id}/roles: the role's
\* id (404), the lookup of the assignment (False), the insert (True); the
\* insert of a pair that user_roles holds breaks its primary key and raises
assign_role(u, role_name) ==
    LET held == role_name \in DOMAIN RoleIds
                  /\ Assignments(env.user_roles, u, RoleIds[role_name]) > 0
    IN /\ IF role_name \notin DOMAIN RoleIds
          THEN /\ last' = RoleReply("assign_role", u, role_name, held, 404, FALSE)
               /\ UNCHANGED env
          ELSE IF role_assigned(env.user_roles, u, RoleIds[role_name])
          THEN /\ last' = RoleReply("assign_role", u, role_name, held, 201, FALSE)
               /\ UNCHANGED env
          ELSE IF Assignments(env.user_roles, u, RoleIds[role_name]) > 0
          THEN /\ last' = RoleReply("assign_role", u, role_name, held, 500, FALSE)
               /\ UNCHANGED env
          ELSE /\ env' = [env EXCEPT !.user_roles[<<u, RoleIds[role_name]>>] = @ + 1]
               /\ last' = RoleReply("assign_role", u, role_name, held, 201, TRUE)
       /\ UNCHANGED <<db, tx, lock, req>>

\* UserService.remove_role: the role's id (404), then the delete of the
\* matching rows
remove_role(u, role_name) ==
    LET held == role_name \in DOMAIN RoleIds
                  /\ Assignments(env.user_roles, u, RoleIds[role_name]) > 0
    IN /\ IF role_name \notin DOMAIN RoleIds
          THEN /\ last' = RoleReply("remove_role", u, role_name, held, 404, FALSE)
               /\ UNCHANGED env
          ELSE /\ env' = [env EXCEPT !.user_roles[<<u, RoleIds[role_name]>>] = 0]
               /\ last' = RoleReply("remove_role", u, role_name, held, 200, held)
       /\ UNCHANGED <<db, tx, lock, req>>

\* the admin assigns and removes roles
NextRoles ==
    \/ \E u \in Users, role_name \in RoleNames : assign_role(u, role_name)
    \/ \E u \in Users, role_name \in RoleNames : remove_role(u, role_name)

SpecRoles == InitAuth /\ [][NextRoles]_vars

MaxPage == 3
MaxPerPage == 2

\* the ids of S, highest first: order_by(created_at.desc()) over products
\* that were created in the order of their ids
RECURSIVE Descending(_)
Descending(S) == IF S = {} THEN <<>> ELSE <<MaxOf(S)>> \o Descending(S \ {MaxOf(S)})

\* the ids of S in rowid order
RECURSIVE Ascending(_)
Ascending(S) == IF S = {} THEN <<>> ELSE Ascending(S \ {MaxOf(S)}) \o <<MaxOf(S)>>

\* query.offset(skip).limit(limit).all()
OffsetLimit(rows, skip, limit) ==
    SubSeq(rows, skip + 1, IF skip + limit < Len(rows) THEN skip + limit ELSE Len(rows))

\* the in_stock flag of a listing item: some variant of the product that
\* is active and not deleted has options whose stock adds up to more than 0
in_stock(T, p) ==
    \E v \in DOMAIN T.variants :
        /\ T.variants[v].product_id = p
        /\ ~ T.variants[v].deleted /\ T.variants[v].is_active
        /\ VariantStock(T, v) > 0

\* the base query of the storefront listing
LiveProducts(T) == {p \in DOMAIN T.products : ~ T.products[p].deleted /\ T.products[p].status = "live"}

\* a page count that rounds down
listing_pages_floor(total, per_page) == IF total > 0 THEN total \div per_page ELSE 0

\* pages=(total + per_page - 1) // per_page if total > 0 else 0
listing_pages(total, per_page) ==
    IF total > 0 THEN (total + per_page - 1) \div per_page ELSE 0

\* "pages": (total + per_page - 1) // per_page
list_products_pages(total, per_page) == (total + per_page - 1) \div per_page

\* a page of a listing as the route returns it
Page(op, items, total, page, per_page, pages, in_stock_only) ==
    [op |-> op, code |-> 200, id |-> NULL, ids |-> {items[i] : i \in DOMAIN items},
     items |-> items, total |-> total, page |-> page, per_page |-> per_page,
     pages |-> pages, in_stock_only |-> in_stock_only]

\* if in_stock_only and not in_stock: continue
listing_items(products, T, in_stock_only) ==
    LET Shown(p) == ~ in_stock_only \/ in_stock(T, p) IN SelectSeq(products, Shown)

\* GET /products/listing: the count of the filtered query, the page of it
\* at skip = (page - 1) * per_page, and the loop over the page's products
\* that leaves the out-of-stock ones out when in_stock_only is set
get_product_listing_page(in_stock_only, page, per_page) ==
    /\ LET total == Cardinality(LiveProducts(db))
           products == OffsetLimit(Descending(LiveProducts(db)), (page - 1) * per_page, per_page)
       IN last' = Page("get_product_listing", listing_items(products, db, in_stock_only), total,
                       page, per_page, listing_pages(total, per_page), in_stock_only)
    /\ UNCHANGED <<db, tx, lock, req, env>>

\* GET /products of the admin: every product row, deleted or not
list_products(page, per_page) ==
    /\ LET total == Cardinality(DOMAIN db.products)
           products == OffsetLimit(Ascending(DOMAIN db.products), (page - 1) * per_page, per_page)
       IN last' = Page("list_products", products, total, page, per_page,
                       list_products_pages(total, per_page), FALSE)
    /\ UNCHANGED <<db, tx, lock, req, env>>

\* every product live, with one size of one piece in stock
ListingSeed ==
    [CatalogueSeed EXCEPT
        !.products = [p \in ProductIds |-> [catalogue_id |-> 1, brand_id |-> NULL,
                                           status |-> "live", deleted |-> FALSE, call |-> NULL,
                                           price |-> 1, mrp |-> 1]],
        !.variants = [v \in ProductIds |-> [product_id |-> v, is_active |-> TRUE,
                                           deleted |-> FALSE, call |-> NULL]],
        !.options = [o \in ProductIds |-> [variant_id |-> o, stock_quantity |-> 1,
                                          call |-> NULL]]]

InitListing ==
    /\ db = ListingSeed
    /\ tx = ListingSeed
    /\ lock = NULL
    /\ req = [r \in Reqs |-> IdleReq]
    /\ last = Found("none", 200, NULL, {})
    /\ env = EnvInit

NextListing ==
    \/ \E o \in ProductIds, quantity \in 0 .. 1 : update_stock(o, quantity)
    \/ \E p \in ProductIds, status \in ProductStatus : update_product(p, status)
    \/ \E p \in ProductIds : soft_delete_product(p)
    \/ \E in_stock_only \in BOOLEAN, page \in 1 .. MaxPage, per_page \in 1 .. MaxPerPage :
         get_product_listing_page(in_stock_only, page, per_page)
    \/ \E page \in 1 .. MaxPage, per_page \in 1 .. MaxPerPage : list_products(page, per_page)

SpecListing == InitListing /\ [][NextListing]_vars

IsPage == last.op \in {"get_product_listing", "list_products"} /\ "pages" \in DOMAIN last

\* C26: in every page of a product listing, whatever page was asked for,
\* pages is the least number of pages of per_page items that hold total
\* items, and it is 0 when total is 0.
C26_PagesIsCeiling ==
    IsPage =>
        /\ last.pages * last.per_page >= last.total
        /\ last.pages > 0 => (last.pages - 1) * last.per_page < last.total
        /\ last.total = 0 => last.pages = 0

\* page 3 of one live product, two per page: one page
C26_Witness ==
    /\ IsPage /\ last.op = "get_product_listing"
    /\ last.page = 3 /\ last.per_page = 2 /\ last.total = 1 /\ last.pages = 1

\* the live products that are in stock
InStockMatches(T) == {p \in LiveProducts(T) : in_stock(T, p)}

\* C29: a storefront page asked for with in_stock_only holds only products
\* in stock, and its total and pages count the in-stock live products.
C29_InStockOnlyCountsInStock ==
    [][(last' # last /\ last'.op = "get_product_listing" /\ "pages" \in DOMAIN last'
          /\ last'.in_stock_only)
        => /\ last'.ids \subseteq InStockMatches(db)
           /\ last'.total = Cardinality(InStockMatches(db))
           /\ last'.pages * last'.per_page >= Cardinality(InStockMatches(db))
           /\ last'.pages > 0 =>
                (last'.pages - 1) * last'.per_page < Cardinality(InStockMatches(db))]_vars

(***************************************************************************)
(* Checkout totals: the subtotal of the payload's items and the shipping   *)
(* charge create_order stores with the order.                              *)
(***************************************************************************)
\* unit prices around the free-shipping threshold and the quantities sent
\* with them (quantity: ge=1, le=10)
UnitPrices == {499, 500, 999}
Quantities == {1, 2}

Lines == {Line(p, q) : p \in UnitPrices, q \in Quantities}

\* the carts of one item or two
Carts == {<<l>> : l \in Lines} \cup {<<l, m>> : l \in Lines, m \in Lines}

NextShipping ==
    \/ \E r \in Reqs, items \in Carts : create_order_address(r, 1, GuestOf(1), FALSE, items)
    \/ \E r \in Reqs, ok \in BOOLEAN : create_order_order(r, ok)
    \/ \E r \in Reqs, ok \in BOOLEAN : create_order_items(r, ok)

SpecShipping == InitOrders /\ [][NextShipping]_vars

\* the sum of unit_price x quantity over a set of order_items rows
RECURSIVE ItemsTotal(_, _)
ItemsTotal(T, S) ==
    IF S = {} THEN 0
    ELSE LET i == CHOOSE x \in S : TRUE
         IN T.items[i].unit_price * T.items[i].quantity + ItemsTotal(T, S \ {i})

MaxPrice == 2

\* the prices a payload may carry: Field(ge=0) on both price and mrp
Prices == 0 .. MaxPrice

\* a ProductCreate that accepts every pair of prices
validate_prices_accept_all(price, mrp) == TRUE

\* ProductCreate.validate_prices: raises when a price is given and is not
\* below the mrp
validate_prices(price, mrp) == ~(price # NoPrice /\ price >= mrp)

\* POST /products: a body that fails validation is answered 422 and the
\* route function is never called; a valid one with a single colour and no
\* sizes goes to ProductService.create_product
post_products(r, c, price, mrp) ==
    IF validate_prices(price, mrp)
    THEN create_product_begin(r, c, NULL, "live", 0, FALSE, TRUE, price, mrp)
    ELSE /\ req[r].pc = "idle"
         /\ last' = Found("create_product", 422, NULL, {}) @@ [price |-> price, mrp |-> mrp]
         /\ UNCHANGED <<db, tx, lock, req, env>>

\* PUT /products/{id} with prices in the payload: model_dump(exclude_unset)
\* keeps the fields that were sent and setattr stores each of them
update_product_prices(p, price, mrp) ==
    /\ lock = NULL
    /\ IF p \in DOMAIN db.products
       THEN /\ Commit([db EXCEPT
                    !.products[p].price = IF price = NoPrice THEN @ ELSE price,
                    !.products[p].mrp = IF mrp = NoPrice THEN @ ELSE mrp])
            /\ last' = Found("update_product", 200, p, {}) @@ [price |-> price, mrp |-> mrp]
       ELSE /\ UNCHANGED <<db, tx, lock>>
            /\ last' = Found("update_product", 404, p, {}) @@ [price |-> price, mrp |-> mrp]
    /\ UNCHANGED <<req, env>>

NextPrices ==
    \/ \E r \in Reqs, price \in Prices \cup {NoPrice}, mrp \in Prices :
         post_products(r, 1, price, mrp)
    \/ \E r \in Reqs : create_product_commit(r, TRUE)
    \/ \E p \in ProductIds, price \in Prices \cup {NoPrice}, mrp \in Prices \cup {NoPrice} :
         update_product_prices(p, price, mrp)

SpecPrices == InitCatalogue /\ [][NextPrices]_vars

\* the product rows, committed or flushed, that a create_product call wrote
CreatedRows(T) == {p \in DOMAIN T.products : T.products[p].call # NULL}

C30_PriceNeverAboveMrp ==
    \A p \in DOMAIN db.products : db.products[p].price <= db.products[p].mrp

(***************************************************************************)
(* Order tracking (OrderService.get_order_by_number, get_order_tracking    *)
(* and the two tracking routes).  An order is looked up by its unique      *)
(* order_number, which stands in one-to-one relation with its id; a        *)
(* timestamp of the timeline is given as the name of the order's field it  *)
(* is read from.                                                           *)
(***************************************************************************)
status_progression ==
    <<"confirmed", "processing", "shipped", "in_transit", "out_for_delivery", "delivered">>

Stages == 1 .. Len(status_progression)

\* str.lower()
lower(e) == IF e = "Ann@shop.in" THEN "ann@shop.in" ELSE e

\* the outcome of a tracking request: the request, the HTTP status, the
\* detail of an error and the timeline of a success
Tracking(op, order_number, email, code, detail, timeline) ==
    [op |-> op, id |-> order_number, email |-> email, code |-> code,
     detail |-> detail, timeline |-> timeline]

\* a lookup that never compares the e-mail
email_mismatch_never(order, email) == FALSE

\* get_order_by_number: the e-mail test on an order that was found
email_mismatch(order, email) ==
    /\ email # NoEmail
    /\ order.guest_email # NoEmail
    /\ lower(order.guest_email) # lower(email)

\* get_order_tracking: the place of the order's status in status_progression,
\* one past its end when the status is not in it
current_status_index(status) ==
    IF \E i \in Stages : status_progression[i] = status
    THEN CHOOSE i \in Stages : status_progression[i] = status
    ELSE Len(status_progression) + 1

\* get_order_tracking: the timeline
OrderTimeline(order) ==
    [i \in Stages |->
        LET completed == i <= current_status_index(order.status)
            timestamp ==
                IF status_progression[i] = "shipped" /\ order.shipped_at # NULL
                THEN "shipped_at"
                ELSE IF status_progression[i] = "delivered" /\ order.delivered_at # NULL
                THEN "delivered_at"
                ELSE "created_at"
        IN [status |-> status_progression[i],
            timestamp |-> IF completed THEN timestamp ELSE "estimated_delivery"]]

\* OrderService.get_order_tracking(order_number, email), answered to route op
get_order_tracking(op, order_number, email) ==
    last' =
        IF order_number \notin DOMAIN db.orders
        THEN Tracking(op, order_number, email, 404, "Order not found", <<>>)
        ELSE IF email_mismatch(db.orders[order_number], email)
        THEN Tracking(op, order_number, email, 404, "Order not found", <<>>)
        ELSE Tracking(op, order_number, email, 200, "", OrderTimeline(db.orders[order_number]))

\* POST /orders/track: the payload carries an order number and an e-mail
track_order(order_number, email) ==
    /\ get_order_tracking("track_order", order_number, email)
    /\ UNCHANGED <<db, tx, lock, req, env>>

\* GET /orders/{order_id}/track: get_current_user, then current_user["id"]
\* on the CurrentUser model, which is not subscriptable
track_order_by_id(order_id, token) ==
    /\ last' =
        IF token = NULL \/ verify_jwt_token(token) = NULL \/ token \notin DOMAIN env.profile
        THEN Tracking("track_order_by_id", order_id, NoEmail, 401, "Authentication required", <<>>)
        ELSE IF profile_refused(env.profile[token])
        THEN Tracking("track_order_by_id", order_id, NoEmail, 403, "User account is blocked", <<>>)
        ELSE Tracking("track_order_by_id", order_id, NoEmail, 500, "Internal server error", <<>>)
    /\ UNCHANGED <<db, tx, lock, req, env>>

\* checkouts of guests and of a signed-in user, the admin's status updates
\* and the tracking requests
NextTracking ==
    \/ \E r \in Reqs, u \in {NULL, 1}, guest \in {NoEmail, "ann@shop.in"} :
         /\ u = NULL => guest # NoEmail
         /\ create_order_address(r, u, guest, FALSE, Cart(1))
    \/ \E r \in Reqs, ok \in BOOLEAN : create_order_order(r, ok)
    \/ \E r \in Reqs, ok \in BOOLEAN : create_order_items(r, ok)
    \/ \E o \in OrderIds, status \in OrderStatus : update_order(o, status, "keep", "keep")
    \/ \E o \in OrderIds, email \in Emails : track_order(o, email)
    \/ \E o \in OrderIds, token \in Tokens : track_order_by_id(o, token)
    \/ \E u \in Users : block_user(u)

SpecTracking == InitOrders /\ [][NextTracking]_vars

\* the stages that the order's status has passed (complete) and has not
\* reached (incomplete): a status of the progression splits the stages at
\* its own place, a status after delivery has passed them all, a cancelled
\* order was confirmed and was never shipped, a pending one has not gone
\* beyond the first stage
PassedStages(status) ==
    IF \E i \in Stages : status_progression[i] = status
    THEN {i \in Stages : i <= CHOOSE k \in Stages : status_progression[k] = status}
    ELSE IF status \in {"return_requested", "return_approved", "return_rejected",
                        "returned", "refunded"}
    THEN Stages
    ELSE IF status = "cancelled" THEN {1}
    ELSE {}

UnreachedStages(status) ==
    IF \E i \in Stages : status_progression[i] = status
    THEN Stages \ PassedStages(status)
    ELSE IF status = "cancelled" THEN {i \in Stages : i >= 3}
    ELSE IF status = "pending" THEN {i \in Stages : i >= 2}
    ELSE {}

\* C15: for an order in whatever status the tracking timeline is the six
\* stages in order; a stage up to and including the order's status carries
\* a real timestamp (shipped_at and delivered_at when set), every later
\* stage carries the estimated delivery date.
C15_TimelineFollowsStatus ==
    (last.op = "track_order" /\ last.code = 200)
        => LET order == db.orders[last.id]
           IN /\ [i \in Stages |-> last.timeline[i].status] = status_progression
              /\ \A i \in PassedStages(order.status) :
                    last.timeline[i].timestamp =
                        IF status_progression[i] = "shipped" /\ order.shipped_at # NULL
                        THEN "shipped_at"
                        ELSE IF status_progression[i] = "delivered" /\ order.delivered_at # NULL
                        THEN "delivered_at"
                        ELSE "created_at"
              /\ \A i \in UnreachedStages(order.status) :
                    last.timeline[i].timestamp = "estimated_delivery"

\* C16: public tracking answers with a guest order's details only when the
\* e-mail given matches the order's guest e-mail (letter case apart); for
\* any other e-mail the answer is the one given for an order number that
\* does not exist.
C16_GuestTrackingNeedsEmail ==
    (/\ last.op = "track_order"
     /\ last.id \in DOMAIN db.orders
     /\ db.orders[last.id].guest_email # NoEmail)
        => IF lower(last.email) = lower(db.orders[last.id].guest_email)
           THEN last.code = 200
           ELSE last = Tracking("track_order", last.id, last.email,
                                404, "Order not found", <<>>)

\* a guest order was asked for with another customer's e-mail and refused
C16_Witness ==
    /\ last.op = "track_order" /\ last.code = 404
    /\ last.id \in DOMAIN db.orders
    /\ db.orders[last.id].guest_email = "ann@shop.in"
    /\ last.email = "bob@shop.in"

(***************************************************************************)
(* POST /orders (routers/v1/order_router.py) behind the optional-user      *)
(* dependency.  The identity backend may fail during a request: fault      *)
(* names the call of the resolution that fails, "none" when none does.     *)
(***************************************************************************)
Faults == {"none", "get_user", "admin_client", "user_profile", "user_roles"}

\* what a dependency hands to the route: the user, or the exception raised
Resolved(user, raised) == [user |-> user, raised |-> raised]

\* verify_jwt_token with its except clause: a failure of
\* client.auth.get_user is printed and None is returned
verify_jwt_token_guarded(token, fault) ==
    IF fault = "get_user" THEN NULL ELSE verify_jwt_token(token)

\* AuthService.get_current_user_from_token: HTTPException for a token that
\* does not verify, a missing profile and a non-ACTIVE account; a failure
\* of get_supabase_admin_client or of a query is not caught
get_current_user_from_token(token, fault) ==
    LET u == verify_jwt_token_guarded(token, fault)
    IN IF u = NULL THEN Resolved(NULL, "HTTPException")
       ELSE IF fault = "admin_client" THEN Resolved(NULL, "RuntimeError")
       ELSE IF fault = "user_profile" THEN Resolved(NULL, "ConnectError")
       ELSE IF u \notin DOMAIN env.profile THEN Resolved(NULL, "HTTPException")
       ELSE IF profile_refused(env.profile[u]) THEN Resolved(NULL, "HTTPException")
       ELSE IF fault = "user_roles" THEN Resolved(NULL, "ConnectError")
       ELSE Resolved(u, "")

\* get_optional_user: None without credentials; except HTTPException:
\* return None
get_optional_user(token, fault) ==
    IF token = NULL
    THEN Resolved(NULL, "")
    ELSE LET current == get_current_user_from_token(token, fault)
         IN IF current.raised = "HTTPException" THEN Resolved(NULL, "") ELSE current

\* the outcome of a POST /orders that ended in the route
Checkout(token, fault, guest, code, raised) ==
    [op |-> "post_orders", token |-> token, fault |-> fault, guest |-> guest,
     code |-> code, raised |-> raised]

\* a route that takes any payload
guest_info_missing_never(user_id, guest) == FALSE

\* create_order: not user_id and not order_data.guest_info
guest_info_missing(user_id, guest) == user_id = NULL /\ guest = NoEmail

\* POST /orders: the dependency, current_user.get("id") (CurrentUser is a
\* pydantic model and has no get), the guest-info check, then
\* OrderService.create_order with the user id None
post_orders(r, token, fault, guest, n) ==
    LET current == get_optional_user(token, fault)
        Ended(code, raised) ==
            /\ req[r].pc = "idle"
            /\ last' = Checkout(token, fault, guest, code, raised)
            /\ UNCHANGED <<db, tx, lock, req, env>>
    IN IF current.raised # ""
       THEN Ended(500, current.raised)
       ELSE IF current.user # NULL
       THEN Ended(500, AttributeError)
       ELSE IF guest_info_missing(NULL, guest)
       THEN Ended(400, "")
       ELSE create_order_address(r, NULL, guest, FALSE, Cart(n))

\* guests and signed-in users check out while accounts are blocked and
\* unblocked
NextCheckout ==
    \/ \E r \in Reqs, token \in Tokens, fault \in Faults, guest \in {NoEmail, "ann@shop.in"} :
         post_orders(r, token, fault, guest, 1)
    \/ \E r \in Reqs, ok \in BOOLEAN : create_order_order(r, ok)
    \/ \E r \in Reqs, ok \in BOOLEAN : create_order_items(r, ok)
    \/ \E u \in Users : block_user(u)
    \/ \E u \in Users : unblock_user(u)

SpecCheckout == InitOrders /\ [][NextCheckout]_vars

\* an order row with a user id or with guest contact details
HasBuyer(row) == row.user_id # NULL \/ row.guest_email # NoEmail

\* C18: every order, stored or being created, has a user id or guest
\* contact details; a request refused with 400 had no user and no guest-info
\* block; and a request that ends in the route creates no Address, Order or
\* OrderItem row.
C18_OrderNeedsUserOrGuest ==
    /\ [](/\ \A o \in DOMAIN db.orders : HasBuyer(db.orders[o])
          /\ \A o \in DOMAIN tx.orders : HasBuyer(tx.orders[o])
          /\ \A r \in Reqs : req[r].pc \in {"order", "items"} => HasBuyer(req[r])
          /\ (last.op = "post_orders" /\ last.code = 400)
                => /\ last.guest = NoEmail
                   /\ get_optional_user(last.token, last.fault).user = NULL)
    /\ [][(last' # last /\ last'.op = "post_orders") => (db' = db /\ tx' = tx)]_vars

\* a request with no token and no guest-info block was refused with 400
\* after a guest's order had been stored
C18_Witness ==
    /\ last.op = "post_orders" /\ last.code = 400
    /\ last.token = NULL /\ last.guest = NoEmail
    /\ \E o \in DOMAIN db.orders : db.orders[o].guest_email = "ann@shop.in"

\* C20, as stated: the optional-user dependency never raises, whatever
\* fails while the presented token is resolved.
C20_OptionalUserNeverRaises ==
    last.op = "post_orders" => last.raised \notin {"RuntimeError", "ConnectError"}

(***************************************************************************)
(* POST /returns (routers/v1/order_router.py) behind the optional-user     *)
(* dependency.                                                             *)
(***************************************************************************)
\* POST /returns: the dependency, current_user.get("id") (which a
\* CurrentUser does not have), then ReturnService.create_return_request
\* with the user id None of a caller without a user
post_returns(token, fault, return_data) ==
    LET current == get_optional_user(token, fault)
        Ended(code, raised) ==
            /\ last' = Reply("create_return_request", code, return_data.order_id, NULL)
                         @@ [data |-> return_data, user_id |-> current.user, raised |-> raised]
            /\ UNCHANGED <<db, tx, lock, req, env>>
    IN IF current.raised # ""
       THEN Ended(500, current.raised)
       ELSE IF current.user # NULL
       THEN Ended(500, AttributeError)
       ELSE create_return_request(NULL, return_data)

\* returns are asked for with and without a session while accounts are
\* blocked and unblocked and the admin records the video call
NextReturnRoute ==
    \/ \E token \in Tokens, fault \in Faults, o \in DOMAIN ReturnsSeed.orders :
         post_returns(token, fault, ReturnAll(o))
    \/ \E a \in {"on", "off"} : update_order(1, "keep", "keep", a)
    \/ \E u \in Users : block_user(u)
    \/ \E u \in Users : unblock_user(u)

SpecReturnRoute == InitReturns /\ [][NextReturnRoute]_vars

\* C27: a return request that was accepted for an order of a registered
\* user came from a caller authenticated as that user.
C27_ReturnOnlyByOwner ==
    (/\ last.op = "create_return_request" /\ last.code = 201
     /\ db.orders[last.id].user_id # NULL)
        => last.user_id = db.orders[last.id].user_id

(***************************************************************************)
(* Uploaded media (services/media_upload_service.py): catalogue banners,   *)
(* deletion and replacement.  The object store answers an upload with the  *)
(* public id, the URL and the dimensions of the stored object.             *)
(***************************************************************************)
\* what cloudinary.uploader.upload reports for the files that are sent
UploadResults ==
    {[public_id |-> 1, secure_url |-> 11, width |-> 32, height |-> 18],
     [public_id |-> 2, secure_url |-> 12, width |-> 8, height |-> 8]}

\* the file that is uploaded first
FirstUpload == CHOOSE result \in UploadResults : result.public_id = 1

DisplayOrders == {0, 1}

\* a catalogue id that no catalogue has
NoCatalogue == MaxOf(CatalogueIds) + 1

RECURSIVE gcd(_, _)
gcd(a, b) == IF b = 0 THEN a ELSE gcd(b, a % b)

\* calculate_aspect_ratio: the ratio in lowest terms, <<0, 0>> for "unknown"
calculate_aspect_ratio(width, height) ==
    IF width = 0 \/ height = 0 THEN <<0, 0>>
    ELSE <<width \div gcd(width, height), height \div gcd(width, height)>>

\* generate_catalogue_banner_folder: one folder per catalogue slug
generate_catalogue_banner_folder(c) == <<"catalogues", c, "banners">>

\* the columns that replace_media assigns, from an upload result
MediaInfo(result) ==
    [cloudinary_url |-> result.secure_url, public_id |-> result.public_id,
     width |-> result.width, height |-> result.height,
     aspect_ratio |-> calculate_aspect_ratio(result.width, result.height)]

\* MediaUploadService.create_media_asset: the row of an uploaded file
create_media_asset(result, folder_path, usage_type, display_order, is_primary, product_id, variant_id) ==
    MediaRow(product_id, variant_id, usage_type, is_primary)
        @@ MediaInfo(result)
        @@ [folder_path |-> folder_path, display_order |-> display_order]

\* the outcome of an upload-service call: remote tells whether the object
\* store deleted the old object
Upload(op, code, media_id, remote) ==
    [op |-> op, code |-> code, media_id |-> media_id, remote |-> remote]

\* _unset_catalogue_primary_banner: UPDATE ... SET is_primary = 0 WHERE
\* folder_path = :folder AND is_primary
unset_catalogue_primary_banner(media, c) ==
    [i \in DOMAIN media |->
        IF media[i].folder_path = generate_catalogue_banner_folder(c) /\ media[i].is_primary
        THEN [media[i] EXCEPT !.is_primary = FALSE]
        ELSE media[i]]

\* upload_catalogue_banner up to the await: validate_catalogue (404), the
\* unset of the catalogue's primary banners (flushed, not committed)
upload_catalogue_banner_begin(r, c, is_primary, display_order) ==
    /\ req[r].pc = "idle"
    /\ IF c \notin DOMAIN View(r).catalogues
       THEN /\ last' = Upload("upload_catalogue_banner", 404, NULL, FALSE)
            /\ UNCHANGED <<db, tx, lock, req>>
       ELSE /\ NextId(View(r).media) <= MaxMedia
            /\ IF is_primary
               THEN /\ CanWrite(r)
                    /\ Write(r, [View(r) EXCEPT !.media = unset_catalogue_primary_banner(@, c)])
               ELSE UNCHANGED <<db, tx, lock>>
            /\ req' = [req EXCEPT ![r] = [pc |-> "banner", op |-> "upload_catalogue_banner",
                                          catalogue_id |-> c, is_primary |-> is_primary,
                                          display_order |-> display_order]]
            /\ UNCHANGED last
    /\ UNCHANGED env

\* ... and after it: the upload raised BusinessRuleException, or
\* create_media_asset inserts the row and commits and a primary banner
\* becomes the catalogue's banner_media_id
upload_catalogue_banner_finish(r, uploaded, result) ==
    /\ req[r].pc = "banner"
    /\ IF uploaded
       THEN LET V == View(r)
                id == NextId(V.media)
                c == req[r].catalogue_id
                row == create_media_asset(result, generate_catalogue_banner_folder(c),
                                          "banner", req[r].display_order,
                                          req[r].is_primary, NULL, NULL)
            IN /\ CanWrite(r)
               /\ id <= MaxMedia
               /\ Commit([V EXCEPT
                     !.media = Insert(@, row),
                     !.catalogues = [k \in DOMAIN @ |->
                         IF k = c /\ req[r].is_primary
                         THEN [@[k] EXCEPT !.banner_media_id = id]
                         ELSE @[k]]])
               /\ last' = Upload("upload_catalogue_banner", 201, id, FALSE)
       ELSE /\ get_db_close(r)
            /\ last' = Upload("upload_catalogue_banner", 400, NULL, FALSE)
    /\ req' = [req EXCEPT ![r] = IdleReq]
    /\ UNCHANGED env

\* delete_media: the catalogue whose banner reference is cleared, looked up
\* only for a row that is a banner and primary; .first() gives one of them
banner_to_clear(catalogues, media, m) ==
    IF media[m].usage_type = "banner" /\ media[m].is_primary
       /\ \E c \in DOMAIN catalogues : catalogues[c].banner_media_id = m
    THEN {CHOOSE c \in DOMAIN catalogues : catalogues[c].banner_media_id = m}
    ELSE {}

\* MediaUploadService.delete_media: get_media_by_id (404), the remote
\* delete (a failure is printed), the banner reference, db.delete, commit
upload_delete_media(m, destroyed) ==
    /\ lock = NULL
    /\ IF m \notin DOMAIN db.media
       THEN /\ last' = Upload("upload_delete_media", 404, m, FALSE)
            /\ UNCHANGED <<db, tx, lock>>
       ELSE /\ Commit([db EXCEPT
                  !.catalogues = [c \in DOMAIN @ |->
                      IF c \in banner_to_clear(db.catalogues, db.media, m)
                      THEN [@[c] EXCEPT !.banner_media_id = NULL]
                      ELSE @[c]],
                  !.media = Remove(@, m)])
            /\ last' = Upload("upload_delete_media", 200, m, destroyed)
    /\ UNCHANGED <<req, env>>

\* a replacement that writes the row back with the flag of a new upload
ReplacedRow_as_new(row, result) == [row EXCEPT !.is_primary = FALSE] @@ MediaInfo(result)

\* replace_media: the five columns that are assigned on the loaded row;
\* the UPDATE of the flush carries these and no other
ReplacedRow(row, result) == MediaInfo(result) @@ row

\* replace_media up to the await: get_media_by_id (404), validate_file
\* (400), the remote delete of the old object (a failure is printed)
replace_media_begin(r, m, valid, destroyed) ==
    /\ req[r].pc = "idle"
    /\ IF m \notin DOMAIN View(r).media
       THEN /\ last' = Upload("replace_media", 404, m, FALSE)
            /\ UNCHANGED req
       ELSE IF ~ valid
       THEN /\ last' = Upload("replace_media", 400, m, FALSE)
            /\ UNCHANGED req
       ELSE /\ req' = [req EXCEPT ![r] = [pc |-> "replacing", op |-> "replace_media",
                                          media_id |-> m, destroyed |-> destroyed]]
            /\ UNCHANGED last
    /\ UNCHANGED <<db, tx, lock, env>>

\* ... and after it: the upload raised BusinessRuleException, or the row
\* gets the new object's columns and db.commit(); the UPDATE of a row that
\* was deleted meanwhile matches nothing and the flush raises
replace_media_finish(r, uploaded, result) ==
    /\ req[r].pc = "replacing"
    /\ LET m == req[r].media_id
           V == View(r)
       IN IF ~ uploaded
          THEN /\ get_db_close(r)
               /\ last' = Upload("replace_media", 400, m, req[r].destroyed)
          ELSE IF m \notin DOMAIN V.media
          THEN /\ get_db_close(r)
               /\ last' = Upload("replace_media", 500, m, req[r].destroyed)
          ELSE /\ CanWrite(r)
               /\ Commit([V EXCEPT !.media[m] = ReplacedRow(@, result)])
               /\ last' = Upload("replace_media", 200, m, req[r].destroyed)
    /\ req' = [req EXCEPT ![r] = IdleReq]
    /\ UNCHANGED env

\* the admin uploads, updates, replaces and deletes catalogue banners
NextUploads ==
    \/ \E r \in Reqs, c \in {1, NoCatalogue}, is_primary \in BOOLEAN, o \in DisplayOrders :
         upload_catalogue_banner_begin(r, c, is_primary, o)
    \/ \E r \in Reqs, uploaded \in BOOLEAN :
         upload_catalogue_banner_finish(r, uploaded, FirstUpload)
    \/ \E m \in MediaIds, prim \in {"on", "off"} : upload_update_media(m, prim)
    \/ \E m \in MediaIds, destroyed \in BOOLEAN : upload_delete_media(m, destroyed)
    \/ \E r \in Reqs, m \in MediaIds, valid \in BOOLEAN, destroyed \in BOOLEAN :
         replace_media_begin(r, m, valid, destroyed)
    \/ \E r \in Reqs, uploaded \in BOOLEAN, result \in UploadResults :
         replace_media_finish(r, uploaded, result)

InitUploads ==
    /\ db = CatalogueSeed
    /\ tx = CatalogueSeed
    /\ lock = NULL
    /\ req = [r \in Reqs |-> IdleReq]
    /\ last = Upload("none", 200, NULL, FALSE)
    /\ env = EnvInit

SpecUploads == InitUploads /\ [][NextUploads]_vars

\* C22, as stated: delete_media removes the record whether or not the
\* remote delete succeeded, and no catalogue's banner_media_id names a media
\* row that does not exist.
C22_NoDanglingBanner ==
    /\ (last.op = "upload_delete_media" /\ last.code = 200)
          => last.media_id \notin DOMAIN db.media
    /\ \A c \in DOMAIN db.catalogues :
          db.catalogues[c].banner_media_id # NULL
            => db.catalogues[c].banner_media_id \in DOMAIN db.media

\* the columns that replace_media is to leave alone
Kept(row) ==
    [display_order |-> row.display_order, is_primary |-> row.is_primary,
     product_id |-> row.product_id, variant_id |-> row.variant_id,
     usage_type |-> row.usage_type, folder_path |-> row.folder_path]

\* a step of a replace_media request
ReplaceStep ==
    \/ \E r \in Reqs : req[r].pc # req'[r].pc /\ "replacing" \in {req[r].pc, req'[r].pc}
    \/ last' # last /\ last'.op = "replace_media"

\* C23: whatever its outcome, a step of replace_media adds and removes no
\* media row and leaves the display order, primary flag, product and
\* variant binding and usage type of every row as they were; a replacement
\* that succeeded gave the row the new object's URL, id and dimensions
\* with the aspect ratio computed from them.
C23_ReplaceKeepsRecord ==
    [][ReplaceStep
         => /\ DOMAIN db'.media = DOMAIN db.media
            /\ \A m \in DOMAIN db.media : Kept(db'.media[m]) = Kept(db.media[m])
            /\ \A m \in DOMAIN db.media :
                  db'.media[m] # db.media[m]
                    => /\ \E r \in Reqs : /\ req[r].pc = "replacing" /\ req'[r].pc = "idle"
                                          /\ req[r].media_id = m
                       /\ last'.op = "replace_media" /\ last'.code = 200
                       /\ db'.media[m].aspect_ratio
                            = calculate_aspect_ratio(db'.media[m].width, db'.media[m].height)]_vars

\* the primary banner shown second was replaced by a file of other
\* dimensions
C23_Witness ==
    /\ last.op = "replace_media" /\ last.code = 200
    /\ db.media[last.media_id].is_primary
    /\ db.media[last.media_id].display_order = 1
    /\ db.media[last.media_id].public_id = 2
    /\ db.media[last.media_id].aspect_ratio = <<1, 1>>

\* everything together
Init == InitCatalogue

Next ==
    \/ NextMedia \/ NextOrders \/ NextAddresses \/ NextProducts \/ NextCatalogue
    \/ NextReturns \/ NextBuyIntent \/ NextHierarchy \/ NextAuth \/ NextRoles \/ NextTracking
    \/ NextCheckout \/ NextUploads \/ NextPrices \/ NextShipping \/ NextListing \/ NextReturnRoute

Spec == Init /\ [][Next]_vars

====
